---- MODULE Spec2Model ----
(***************************************************************************)
(* Model of the pitching biomechanics report generator                     *)
(* (src/cltest_report.py): the range classifier get_range_color and the    *)
(* MocapReportGenerator object with its page generators and the            *)
(* generate_report driver.                                                 *)
(*                                                                         *)
(* Python values are encoded as follows.  None is the empty tuple; a       *)
(* reference range (low, high) is the pair <<low, high>>; a numeric std s  *)
(* is the one-element tuple <<s>>.  Numbers are integers.  A dictionary is *)
(* a function whose domain is its key set.  A mutable object (a dict) is   *)
(* an entry of the heap and is referred to by its identifier, so that two  *)
(* names of one object see each other's writes.                            *)
(***************************************************************************)
EXTENDS Integers, Sequences, FiniteSets, TLC

VARIABLES
    COLORS,             \* module global COLORS (name -> colour)
    REFERENCE_RANGES,   \* module global REFERENCE_RANGES
    value,              \* get_range_color: argument value of the examined call
    ref_range,          \* get_range_color: argument ref_range
    std,                \* get_range_color: argument std
    result,             \* colour returned by the latest examined call
    ncalls,             \* number of examined calls made so far
    other_result,       \* colour returned by the latest call with other arguments
    player_name,        \* self.player_name
    date,               \* self.date
    velocity_range,     \* self.velocity_range
    output_path,        \* self.output_path
    metrics,            \* self.metrics (a reference into the heap, or None)
    heap,               \* the dictionaries: identifier -> contents
    pc,                 \* position of the running generate_report call
    page_idx,           \* index of the next page generator generate_report calls
    doc_path,           \* filename held by the SimpleDocTemplate doc
    elements,           \* local list elements of generate_report
    files,              \* the file system: path -> document written there
    returned,           \* value returned by the last completed generate_report
    ctor_output_path,   \* the output_path argument the constructor received
    called,             \* page generators the running generate_report has called
    raised_in,          \* the call that raised in the running generate_report
    call_metrics,       \* history: self.metrics at the entry of the latest call
    first_return,       \* history: the first generate_report call that returned
    metrics_list,       \* argument metrics_list of the examined table builder call
    table,              \* table returned by the latest examined table builder call
    table_builder,      \* the table builder method that returned it
    script_pc,          \* pitching_report.py: the statement to run next
    pitching_poi,       \* pitching_report.py: the loaded table
    pitching_poi_filtered,  \* pitching_report.py: the filtered table
    script_stats,       \* pitching_report.py: the list stats
    stats_df,           \* pitching_report.py: the table built from stats
    main_pc,            \* main: the statement to run next
    pitching_data,      \* main: the table load_and_process_data returned
    stats,              \* main: the statistics load_and_process_data returned
    main_runs,          \* number of runs of main begun so far
    main_returns,       \* per completed run of main: its data and its report
    labels,             \* animate_skeleton_hitting: the file's label list
    point_first_frame,  \* animate_skeleton_hitting: header first_frame
    point_last_frame,   \* animate_skeleton_hitting: header last_frame
    frame_step,         \* animate_skeleton_hitting: argument frame_step
    scatter,            \* the frame whose markers the scatter shows
    skeleton_lines,     \* data of the 13 skeleton lines
    bat_lines,          \* data of the 3 bat lines
    frame_idx,          \* argument of the latest update call (-1: none yet)
    update_result,      \* list returned by the latest update call
    update_error        \* exception raised by the latest update call

classifierVars == <<value, ref_range, std, result, ncalls, other_result>>
globalVars == <<COLORS, REFERENCE_RANGES>>
selfVars == <<player_name, date, velocity_range, output_path, metrics>>
reportVars == <<pc, page_idx, doc_path, elements, files, returned,
                ctor_output_path, called, raised_in, call_metrics,
                first_return>>
tableVars == <<metrics_list, table, table_builder>>
scriptVars == <<script_pc, pitching_poi, pitching_poi_filtered, script_stats,
                stats_df>>
mainVars == <<main_pc, pitching_data, stats, main_runs, main_returns>>
animVars == <<labels, point_first_frame, point_last_frame, frame_step, scatter,
              skeleton_lines, bat_lines, frame_idx, update_result,
              update_error>>
extraVars == <<tableVars, scriptVars, mainVars, animVars>>
vars == <<COLORS, REFERENCE_RANGES, value, ref_range, std, result, ncalls,
          other_result, player_name, date, velocity_range, output_path,
          metrics, heap, pc, page_idx, doc_path, elements, files, returned,
          ctor_output_path, called, raised_in, call_metrics, first_return,
          extraVars>>

None == <<>>

----
(* Bounds of the classifier's inputs.                                      *)
MaxBound == 2       \* range bounds are drawn from 0..MaxBound
MaxStd == 2         \* numeric std values are drawn from -1..MaxStd
MaxCalls == 2       \* examined calls per behaviour
MaxRows == 2        \* rows of a drawn metrics_list or table of pitches
MaxRuns == 2        \* runs of main per behaviour
MaxMissing == 2     \* marker labels missing from a file's label list
MaxFirstFrame == 2  \* first_frame is drawn from 0..MaxFirstFrame
MaxSpan == 2        \* last_frame - first_frame is drawn from 0..MaxSpan
MaxStep == 2        \* frame_step is drawn from 1..MaxStep

Values == (0 - MaxStd - 1)..(MaxBound + MaxStd + 1)
Ranges == {None} \cup {<<l, h>> : l \in 0..MaxBound, h \in 0..MaxBound}
Stds == {None} \cup {<<s>> : s \in (0 - 1)..MaxStd}

----
(* Module globals.                                                         *)
COLORS_INIT ==
    [navy |-> "#002855", gold |-> "#EAAA00", light_gold |-> "#F5D78E",
     white |-> "white", black |-> "black", green |-> "#90EE90",
     yellow |-> "#FFFACD", red |-> "#FFB6C1", gray |-> "#F5F5F5",
     dark_gray |-> "#333333"]

Phases(fp, mer, rel) == [FP |-> fp, MER |-> mer, REL |-> rel]

REFERENCE_RANGES_INIT ==
    [shoulder_horizontal_abduction |->
         Phases(<<0 - 36, 0 - 12>>, <<0 - 7, 15>>, <<0 - 1, 23>>),
     shoulder_abduction |-> Phases(<<80, 100>>, <<82, 98>>, <<82, 98>>),
     shoulder_external_rotation |->
         Phases(<<14, 90>>, <<170, 188>>, <<97, 121>>),
     elbow_flexion |-> Phases(<<94, 124>>, <<74, 94>>, <<20, 30>>),
     trunk_forward_tilt |-> Phases(<<9, 21>>, <<10, 22>>, <<26, 40>>),
     trunk_lateral_tilt |-> Phases(<<0 - 10, 0>>, <<13, 29>>, <<8, 28>>),
     trunk_rotation |-> Phases(<<95, 118>>, <<0 - 5, 15>>, <<0 - 4, 0 - 24>>),
     pelvic_forward_tilt |-> Phases(<<0, 14>>, <<32, 46>>, <<40, 56>>),
     pelvic_lateral_tilt |-> Phases(<<0 - 3, 5>>, <<0 - 3, 13>>, <<0 - 5, 11>>),
     pelvic_rotation |-> Phases(<<30, 76>>, <<0 - 10, 6>>, <<0 - 14, 2>>),
     hip_shoulder_separation |-> [FP |-> <<32, 52>>],
     knee_flexion |-> Phases(<<43, 57>>, <<40, 60>>, <<28, 56>>),
     shoulder_force_bw |-> <<176, 224>>,
     shoulder_internal_rotation_torque_bwh |-> <<17, 29>>,
     elbow_torque_bwh |-> <<13, 17>>,
     pelvis_angular_velocity |-> <<581, 811>>,
     trunk_angular_velocity |-> <<861, 1187>>,
     elbow_angular_velocity |-> <<2030, 2542>>,
     shoulder_angular_velocity |-> <<3801, 4923>>]

----
(* get_range_color(value, ref_range, std=None)                             *)

\* variant: the distance above the range is measured from the low bound
Distance_from_low(v, low, high) == IF v < low THEN low - v ELSE v - low

\* the distance of a value outside the range to the nearer bound
Distance(v, low, high) == IF v < low THEN low - v ELSE v - high

\* variant: the range test excludes the two bounds
get_range_color_exclusive(v, r, s) ==
    IF r = None THEN COLORS["gray"]
    ELSE LET low == r[1]
             high == r[2]
         IN  IF low < v /\ v < high THEN COLORS["green"]
             ELSE IF s # None /\ Distance(v, low, high) <= s[1]
                  THEN COLORS["yellow"]
                  ELSE COLORS["red"]

\* variant: the near-range band excludes distance = std
get_range_color_strict_band(v, r, s) ==
    IF r = None THEN COLORS["gray"]
    ELSE LET low == r[1]
             high == r[2]
         IN  IF low <= v /\ v <= high THEN COLORS["green"]
             ELSE IF s # None /\ Distance(v, low, high) < s[1]
                  THEN COLORS["yellow"]
                  ELSE COLORS["red"]

\* variant: a missing std counts as a std of 1
get_range_color_default_std(v, r, s) ==
    IF r = None THEN COLORS["gray"]
    ELSE LET low == r[1]
             high == r[2]
             sd == IF s = None THEN 1 ELSE s[1]
         IN  IF low <= v /\ v <= high THEN COLORS["green"]
             ELSE IF Distance(v, low, high) <= sd
                  THEN COLORS["yellow"]
                  ELSE COLORS["red"]

\* variant: a missing range is classified as out of range
get_range_color_no_neutral(v, r, s) ==
    IF r = None THEN COLORS["red"]
    ELSE LET low == r[1]
             high == r[2]
         IN  IF low <= v /\ v <= high THEN COLORS["green"]
             ELSE IF s # None /\ Distance(v, low, high) <= s[1]
                  THEN COLORS["yellow"]
                  ELSE COLORS["red"]

\* variant: the band uses the magnitude of std
get_range_color_abs_std(v, r, s) ==
    IF r = None THEN COLORS["gray"]
    ELSE LET low == r[1]
             high == r[2]
             sd == IF s = None THEN 0 ELSE IF s[1] < 0 THEN 0 - s[1] ELSE s[1]
         IN  IF low <= v /\ v <= high THEN COLORS["green"]
             ELSE IF s # None /\ Distance(v, low, high) <= sd
                  THEN COLORS["yellow"]
                  ELSE COLORS["red"]

\* variant: the bounds of a reversed range are put in order first
get_range_color_sorted_bounds(v, r, s) ==
    IF r = None THEN COLORS["gray"]
    ELSE LET low == IF r[1] <= r[2] THEN r[1] ELSE r[2]
             high == IF r[1] <= r[2] THEN r[2] ELSE r[1]
         IN  IF low <= v /\ v <= high THEN COLORS["green"]
             ELSE IF s # None /\ Distance(v, low, high) <= s[1]
                  THEN COLORS["yellow"]
                  ELSE COLORS["red"]

\* variant: the near-range band is the distances from std upwards
get_range_color_inverted_band(v, r, s) ==
    IF r = None THEN COLORS["gray"]
    ELSE LET low == r[1]
             high == r[2]
         IN  IF low <= v /\ v <= high THEN COLORS["green"]
             ELSE IF s # None /\ Distance(v, low, high) >= s[1]
                  THEN COLORS["yellow"]
                  ELSE COLORS["red"]

get_range_color(v, r, s) ==
    IF r = None THEN COLORS["gray"]
    ELSE LET low == r[1]
             high == r[2]
         IN  IF low <= v /\ v <= high THEN COLORS["green"]
             ELSE IF s # None /\ Distance(v, low, high) <= s[1]
                  THEN COLORS["yellow"]
                  ELSE COLORS["red"]

NoResult == "no result"

\* variant: the call rewrites an entry of the colour table
GetRangeColorCall_writes_COLORS ==
    /\ ncalls < MaxCalls
    /\ result' = get_range_color(value, ref_range, std)
    /\ ncalls' = ncalls + 1
    /\ COLORS' = [COLORS EXCEPT !["red"] = COLORS["yellow"]]
    /\ UNCHANGED <<value, ref_range, std, other_result>>
    /\ UNCHANGED <<REFERENCE_RANGES, selfVars, heap, reportVars>>
    /\ UNCHANGED extraVars

\* a call get_range_color(value, ref_range, std) on the examined arguments
GetRangeColorCall ==
    /\ ncalls < MaxCalls
    /\ result' = get_range_color(value, ref_range, std)
    /\ ncalls' = ncalls + 1
    /\ UNCHANGED <<value, ref_range, std, other_result>>
    /\ UNCHANGED <<globalVars, selfVars, heap, reportVars>>
    /\ UNCHANGED extraVars

\* a call of get_range_color on other arguments, between two examined calls:
\* any value, with the examined range, the widest range or no range, and
\* with the examined std or none
GetRangeColorOtherCall ==
    \E v \in Values, r \in {None, ref_range, <<0, MaxBound>>},
       s \in {None, std} :
        /\ other_result' = get_range_color(v, r, s)
        /\ UNCHANGED <<value, ref_range, std, result, ncalls>>
        /\ UNCHANGED <<globalVars, selfVars, heap, reportVars>>
        /\ UNCHANGED extraVars

----
(* MocapReportGenerator: constructor arguments and metrics dictionaries.   *)
(* References to objects are strings; the reference to None is "None".     *)

NoneRef == "None"
PlayerNames == {"Luke Coats", "Other Player"}
Dates == {"August 29, 2025"}
VelocityRanges == {"90mph - 92mph"}
Paths == {"mocap_report.pdf", "reports/other.pdf"}

\* the dictionary main() passes to set_metrics
MAIN_METRICS ==
    [angular_velocities |->
         [knee |-> 0 - 338, pelvis |-> 594, trunk |-> 1060, elbow |-> 2209,
          shoulder |-> 4277],
     stress |-> [shoulder_force |-> 129, shoulder_torque |-> 7,
                 elbow_torque |-> 6],
     arm_slot |-> <<62, 2>>]

\* another caller's dictionary: other values, no 'stress' entry
OTHER_METRICS ==
    [angular_velocities |->
         [knee |-> 0 - 300, pelvis |-> 700, trunk |-> 900, elbow |-> 2600,
          shoulder |-> 4000],
     arm_slot |-> <<45, 1>>]

EmptyDict == [k \in {} |-> 0]

\* "own" is the dict created by __init__; "m1" and "m2" belong to the caller
HEAP_INIT == [o \in {"own", "m1", "m2"} |->
                 CASE o = "own" -> EmptyDict
                   [] o = "m1" -> MAIN_METRICS
                   [] o = "m2" -> OTHER_METRICS]

\* d[k] = v on a dictionary
DictSet(d, k, v) == [x \in (DOMAIN d) \cup {k} |-> IF x = k THEN v ELSE d[x]]

NoFile == <<>>

----
(* Tables, table styles and plots.  A table cell is a format string with   *)
(* the numbers that fill it ("deg" stands for the degree sign and "+/-"    *)
(* for the plus-minus sign).  Numbers with a decimal part occur in the     *)
(* report's literals (0.6, 0.8, 0.7, 0.5), so the numbers of the metrics   *)
(* table and of the detail tables are held in tenths: the literal x is the *)
(* integer 10x, and an integer of REFERENCE_RANGES that meets them is      *)
(* promoted the same way.  The angular-velocity and stress tables of the   *)
(* summary page only see the integers of the metrics dictionary and keep   *)
(* them as they are.  Of a table's style only the BACKGROUND commands are  *)
(* kept; cell coordinates are (column, row), 0-based, -1 the last one.     *)

Fx(n) == n * 10

FxRange(r) == IF r = None THEN None ELSE <<Fx(r[1]), Fx(r[2])>>

Fmt(f, args) == [fmt |-> f, args |-> args]

\* a cell whose filled-in part is set in <font color=...>; text is what
\* fills the braces when it is a word and not numbers
FontFmt(f, args, color, text) ==
    [fmt |-> f, args |-> args, color |-> color, text |-> text]

Bg(c1, r1, c2, r2, colour) ==
    [c1 |-> c1, r1 |-> r1, c2 |-> c2, r2 |-> r2, colour |-> colour]

\* the table t held by the variable called name
Named(name, t) == [name |-> name, data |-> t.data, styles |-> t.styles]

\* d.get(k, default)
DictGet(d, k, default) == IF k \in DOMAIN d THEN d[k] ELSE default

\* truth value of a reference range in `if ref:`
Truthy(r) == r # None

\* variant: a cell without reference range is painted too
PhaseStyles_unguarded(mlist) ==
    LET n == Len(mlist)
        slot(k) ==
            LET i == (k - 1) \div 3
                ph == (k - 1) % 3
                metric == mlist[i + 1]
            IN  [col |-> ph + 1, row_idx |-> i + 1,
                 val |-> metric[2 + 2 * ph], sd |-> metric[3 + 2 * ph],
                 ref |-> metric[8 + ph]]
    IN  [k \in 1..(3 * n) |->
            Bg(slot(k).col, slot(k).row_idx, slot(k).col, slot(k).row_idx,
               get_range_color(slot(k).val, slot(k).ref, <<slot(k).sd>>))]

\* variant: row_idx is i, without the + 1 for the header row
PhaseStyles_no_header_offset(mlist) ==
    LET n == Len(mlist)
        slot(k) ==
            LET i == (k - 1) \div 3
                ph == (k - 1) % 3
                metric == mlist[i + 1]
            IN  [col |-> ph + 1, row_idx |-> i,
                 val |-> metric[2 + 2 * ph], sd |-> metric[3 + 2 * ph],
                 ref |-> metric[8 + ph]]
        painted == SelectSeq([k \in 1..(3 * n) |-> slot(k)],
                             LAMBDA s : Truthy(s.ref))
    IN  [k \in 1..Len(painted) |->
            Bg(painted[k].col, painted[k].row_idx,
               painted[k].col, painted[k].row_idx,
               get_range_color(painted[k].val, painted[k].ref,
                               <<painted[k].sd>>))]

\* the BACKGROUND commands the loop of _create_metrics_table appends: row i
\* (0-based) visits its FP, MER and REL cell in this order and paints the
\* cell in column 1, 2, 3 of table row i + 1 when its reference is truthy
PhaseStyles(mlist) ==
    LET n == Len(mlist)
        slot(k) ==
            LET i == (k - 1) \div 3
                ph == (k - 1) % 3
                metric == mlist[i + 1]
            IN  [col |-> ph + 1, row_idx |-> i + 1,
                 val |-> metric[2 + 2 * ph], sd |-> metric[3 + 2 * ph],
                 ref |-> metric[8 + ph]]
        painted == SelectSeq([k \in 1..(3 * n) |-> slot(k)],
                             LAMBDA s : Truthy(s.ref))
    IN  [k \in 1..Len(painted) |->
            Bg(painted[k].col, painted[k].row_idx,
               painted[k].col, painted[k].row_idx,
               get_range_color(painted[k].val, painted[k].ref,
                               <<painted[k].sd>>))]

\* _create_metrics_table(title, metrics_list); a metric is the tuple
\* (label, fp_val, fp_std, mer_val, mer_std, rel_val, rel_std,
\*  fp_ref, mer_ref, rel_ref)
create_metrics_table(title, mlist) ==
    LET header == << Fmt("Key Metrics", <<>>), Fmt("Foot Plant", <<>>),
                     Fmt("Max External Rotation", <<>>),
                     Fmt("Release", <<>>) >>
        row(metric) ==
            << Fmt(metric[1], <<>>),
               Fmt("{}deg +/- {}deg", <<metric[2], metric[3]>>),
               Fmt("{}deg +/- {}deg", <<metric[4], metric[5]>>),
               Fmt("{}deg +/- {}deg", <<metric[6], metric[7]>>) >>
    IN  [data |-> <<header>> \o
                  [i \in 1..Len(mlist) |-> row(mlist[i])],
         styles |-> <<Bg(0, 0, -1, 0, COLORS["navy"])>> \o
                    PhaseStyles(mlist)]

\* the cell f"{d.get(key, 'N/A')}<unit>"
GetOrNA(d, key, with_value, without_value) ==
    IF key \in DOMAIN d THEN Fmt(with_value, <<d[key]>>)
    ELSE Fmt(without_value, <<>>)

\* variant: the two small tables pass a std of one unit to the classifier
ValueStyles_with_std(d, keys, refs) ==
    LET slots == [i \in 1..Len(keys) |->
                     [row_idx |-> i, val |-> DictGet(d, keys[i], 0),
                      ref |-> refs[i]]]
        painted == SelectSeq(slots, LAMBDA s : Truthy(s.ref))
    IN  [k \in 1..Len(painted) |->
            Bg(1, painted[k].row_idx, 1, painted[k].row_idx,
               get_range_color(painted[k].val, painted[k].ref, <<1>>))]

\* the loop `for i, key in enumerate(keys)` shared by the two small tables:
\* val = d.get(key, 0), and the cell (1, i + 1) is painted by
\* get_range_color(val, ref) when the reference refs[i] is truthy
ValueStyles(d, keys, refs) ==
    LET slots == [i \in 1..Len(keys) |->
                     [row_idx |-> i, val |-> DictGet(d, keys[i], 0),
                      ref |-> refs[i]]]
        painted == SelectSeq(slots, LAMBDA s : Truthy(s.ref))
    IN  [k \in 1..Len(painted) |->
            Bg(1, painted[k].row_idx, 1, painted[k].row_idx,
               get_range_color(painted[k].val, painted[k].ref, None))]

\* _create_angular_velocity_table(self), m the dictionary self.metrics
create_angular_velocity_table(m) ==
    LET velocities == DictGet(m, "angular_velocities", EmptyDict)
        ref_keys == <<"knee", "pelvis", "trunk", "elbow", "shoulder">>
        \* f'{key}_angular_velocity'
        ref_names == <<"knee_angular_velocity", "pelvis_angular_velocity",
                       "trunk_angular_velocity", "elbow_angular_velocity",
                       "shoulder_angular_velocity">>
        refs == [i \in 1..5 |-> DictGet(REFERENCE_RANGES, ref_names[i], None)]
    IN  [data |->
            << << Fmt("Angular Velocities", <<>>), Fmt("", <<>>) >>,
               << Fmt("Knee", <<>>),
                  GetOrNA(velocities, "knee", "{}deg/s", "N/Adeg/s") >>,
               << Fmt("Pelvis", <<>>),
                  GetOrNA(velocities, "pelvis", "{}deg/s", "N/Adeg/s") >>,
               << Fmt("Trunk", <<>>),
                  GetOrNA(velocities, "trunk", "{}deg/s", "N/Adeg/s") >>,
               << Fmt("Elbow", <<>>),
                  GetOrNA(velocities, "elbow", "{}deg/s", "N/Adeg/s") >>,
               << Fmt("Shoulder", <<>>),
                  GetOrNA(velocities, "shoulder", "{}deg/s", "N/Adeg/s") >> >>,
         styles |-> <<Bg(0, 0, -1, 0, COLORS["navy"])>> \o
                    ValueStyles(velocities, ref_keys, refs)]

\* _create_stress_table(self), m the dictionary self.metrics
create_stress_table(m) ==
    LET stress == DictGet(m, "stress", EmptyDict)
        keys == <<"shoulder_force", "shoulder_torque", "elbow_torque">>
        refs == << DictGet(REFERENCE_RANGES, "shoulder_force_bw", None),
                   DictGet(REFERENCE_RANGES,
                           "shoulder_internal_rotation_torque_bwh", None),
                   DictGet(REFERENCE_RANGES, "elbow_torque_bwh", None) >>
    IN  [data |->
            << << Fmt("Stress", <<>>), Fmt("", <<>>) >>,
               << Fmt("Shoulder Force", <<>>),
                  GetOrNA(stress, "shoulder_force", "{}%BW", "N/A%BW") >>,
               << Fmt("Shoulder Torque", <<>>),
                  GetOrNA(stress, "shoulder_torque", "{}%BWH", "N/A%BWH") >>,
               << Fmt("Elbow Torque", <<>>),
                  GetOrNA(stress, "elbow_torque", "{}%BWH", "N/A%BWH") >> >>,
         styles |-> <<Bg(0, 0, -1, 0, COLORS["navy"])>> \o
                    ValueStyles(stress, keys, refs)]

----
(* Plots.  Times on the normalized time axis are held in hundredths.       *)

fp_time_default == 50
mer_time_default == 70
rel_time_default == 85

VLine(x, color) == [x |-> x, color |-> color]

\* variant: the MER marker is not drawn
create_time_series_plot_no_mer(ref_rng, fp_time, mer_time, rel_time, title) ==
    [kind |-> "time_series", title |-> title, band |-> ref_rng,
     vlines |-> << VLine(fp_time, "blue"), VLine(rel_time, "red") >>,
     xlim |-> <<0, 100>>, angle |-> None]

\* create_time_series_plot(times, values, std_values, ref_range, fp_time,
\* mer_time, rel_time, ylabel, title): the band is drawn when ref_range is
\* not None, the three vertical lines always
create_time_series_plot(ref_rng, fp_time, mer_time, rel_time, title) ==
    [kind |-> "time_series", title |-> title, band |-> ref_rng,
     vlines |-> << VLine(fp_time, "blue"), VLine(rel_time, "red"),
                   VLine(mer_time, "black") >>,
     xlim |-> <<0, 100>>, angle |-> None]

create_kinematic_sequence_plot ==
    [kind |-> "kinematic_sequence", title |-> "Kinematic Sequence",
     band |-> None,
     vlines |-> << VLine(50, "blue"), VLine(85, "red") >>,
     xlim |-> <<0, 100>>, angle |-> None]

\* variant: the boundary between Three-Quarter and Low Three-Quarter is 65
categories_shifted_boundary ==
    << [name |-> "Overhead", start |-> 0, end |-> 40, color |-> "#003366"],
       [name |-> "High Three-Quarter", start |-> 40, end |-> 50,
        color |-> "#004488"],
       [name |-> "Three-Quarter", start |-> 50, end |-> 65,
        color |-> "#0066AA"],
       [name |-> "Low Three-Quarter", start |-> 65, end |-> 70,
        color |-> "#0088CC"],
       [name |-> "Sidearm", start |-> 70, end |-> 90, color |-> "#EAAA00"],
       [name |-> "Low Sidearm", start |-> 90, end |-> 110,
        color |-> "#CC8800"],
       [name |-> "Submarine", start |-> 110, end |-> 180,
        color |-> "#AA6600"] >>

\* the list categories of create_arm_slot_diagram: (name, start, end, color)
categories ==
    << [name |-> "Overhead", start |-> 0, end |-> 40, color |-> "#003366"],
       [name |-> "High Three-Quarter", start |-> 40, end |-> 50,
        color |-> "#004488"],
       [name |-> "Three-Quarter", start |-> 50, end |-> 60,
        color |-> "#0066AA"],
       [name |-> "Low Three-Quarter", start |-> 60, end |-> 70,
        color |-> "#0088CC"],
       [name |-> "Sidearm", start |-> 70, end |-> 90, color |-> "#EAAA00"],
       [name |-> "Low Sidearm", start |-> 90, end |-> 110,
        color |-> "#CC8800"],
       [name |-> "Submarine", start |-> 110, end |-> 180,
        color |-> "#AA6600"] >>

\* one wedge per category, from theta1 = 90 - end to theta2 = 90 - start,
\* and the indicator line at arm_slot_angle
create_arm_slot_diagram(arm_slot_angle) ==
    [kind |-> "arm_slot_diagram", title |-> "", band |-> None,
     vlines |-> <<>>, xlim |-> <<>>, angle |-> <<arm_slot_angle>>,
     wedges |-> [i \in 1..Len(categories) |->
                    [theta1 |-> 90 - categories[i].end,
                     theta2 |-> 90 - categories[i].start,
                     facecolor |-> categories[i].color]]]

----
(* The page generators.  A flowable is a record naming the generator that  *)
(* made it, its kind, the variable that holds it, the text it shows and    *)
(* the plot images and tables laid out in it.                              *)

Flowable(page, kind, name, text) ==
    [page |-> page, kind |-> kind, name |-> name, text |-> text,
     plots |-> <<>>, tables |-> <<>>]

\* a Table or Image flowable that holds plot images and tables
Holder(page, kind, name, plots, tables) ==
    [page |-> page, kind |-> kind, name |-> name, text |-> <<>>,
     plots |-> plots, tables |-> tables]

Spacer(page) == Flowable(page, "Spacer", "Spacer", <<>>)

PageBreak == Flowable("generate_report", "PageBreak", "PageBreak", <<>>)

\* the literals generate_summary_page writes into self.metrics
SUMMARY_ANGULAR_VELOCITIES ==
    [knee |-> 0 - 338, pelvis |-> 594, trunk |-> 1060, elbow |-> 2209,
     shoulder |-> 4277]

SUMMARY_STRESS ==
    [shoulder_force |-> 129, shoulder_torque |-> 7, elbow_torque |-> 6]

\* variant: the summary page writes its literals only where the key is absent
SummaryMetricsWrite_setdefault(h, m) ==
    [h EXCEPT ![m] =
        LET a == IF "angular_velocities" \in DOMAIN @ THEN @
                 ELSE DictSet(@, "angular_velocities",
                              SUMMARY_ANGULAR_VELOCITIES)
        IN  IF "stress" \in DOMAIN a THEN a
            ELSE DictSet(a, "stress", SUMMARY_STRESS)]

\* the heap after generate_summary_page's two assignments into self.metrics
SummaryMetricsWrite(h, m) ==
    [h EXCEPT ![m] = DictSet(DictSet(@, "angular_velocities",
                                     SUMMARY_ANGULAR_VELOCITIES),
                             "stress", SUMMARY_STRESS)]

\* the list shoulder_metrics of generate_summary_page
shoulder_metrics ==
    << << "Shoulder Horizontal Abduction", -440, 10, -40, 20, 10, 10,
           FxRange(REFERENCE_RANGES["shoulder_horizontal_abduction"]["FP"]),
           FxRange(REFERENCE_RANGES["shoulder_horizontal_abduction"]["MER"]),
           FxRange(REFERENCE_RANGES["shoulder_horizontal_abduction"]["REL"]) >>,
       << "Shoulder Abduction", 910, 20, 1020, 6, 990, 10,
           FxRange(REFERENCE_RANGES["shoulder_abduction"]["FP"]),
           FxRange(REFERENCE_RANGES["shoulder_abduction"]["MER"]),
           FxRange(REFERENCE_RANGES["shoulder_abduction"]["REL"]) >>,
       << "Shoulder External Rotation", 480, 40, 1930, 10, 1230, 30,
           FxRange(REFERENCE_RANGES["shoulder_external_rotation"]["FP"]),
           FxRange(REFERENCE_RANGES["shoulder_external_rotation"]["MER"]),
           FxRange(REFERENCE_RANGES["shoulder_external_rotation"]["REL"]) >>,
       << "Elbow Flexion", 1130, 10, 860, 10, 300, 10,
           FxRange(REFERENCE_RANGES["elbow_flexion"]["FP"]),
           FxRange(REFERENCE_RANGES["elbow_flexion"]["MER"]),
           FxRange(REFERENCE_RANGES["elbow_flexion"]["REL"]) >>,
       << "Trunk Forward Tilt", 130, 10, 330, 10, 480, 10,
           FxRange(REFERENCE_RANGES["trunk_forward_tilt"]["FP"]),
           FxRange(REFERENCE_RANGES["trunk_forward_tilt"]["MER"]),
           FxRange(REFERENCE_RANGES["trunk_forward_tilt"]["REL"]) >>,
       << "Trunk Rotation", 1090, 20, -60, 8, -200, 7,
           FxRange(REFERENCE_RANGES["trunk_rotation"]["FP"]),
           FxRange(REFERENCE_RANGES["trunk_rotation"]["MER"]),
           FxRange(REFERENCE_RANGES["trunk_rotation"]["REL"]) >>,
       << "Hip-Shoulder Separation", 510, 20, 110, 20, 60, 30,
           FxRange(REFERENCE_RANGES["hip_shoulder_separation"]["FP"]),
           None,
           None >>,
       << "Pelvic Forward Tilt", 70, 6, 450, 10, 550, 20,
           FxRange(REFERENCE_RANGES["pelvic_forward_tilt"]["FP"]),
           FxRange(REFERENCE_RANGES["pelvic_forward_tilt"]["MER"]),
           FxRange(REFERENCE_RANGES["pelvic_forward_tilt"]["REL"]) >>,
       << "Pelvic Rotation", 570, 30, -90, 20, -110, 20,
           FxRange(REFERENCE_RANGES["pelvic_rotation"]["FP"]),
           FxRange(REFERENCE_RANGES["pelvic_rotation"]["MER"]),
           FxRange(REFERENCE_RANGES["pelvic_rotation"]["REL"]) >>,
       << "Knee Flexion", 610, 20, 580, 40, 480, 30,
           FxRange(REFERENCE_RANGES["knee_flexion"]["FP"]),
           FxRange(REFERENCE_RANGES["knee_flexion"]["MER"]),
           FxRange(REFERENCE_RANGES["knee_flexion"]["REL"]) >> >>

generate_summary_page ==
    LET p == "generate_summary_page"
        self_metrics == SummaryMetricsWrite(heap, metrics)[metrics]
    IN  << Flowable(p, "Table", "header_table",
                    <<player_name, date, velocity_range>>),
           Spacer(p),
           Flowable(p, "Paragraph", "summary_title", <<"SUMMARY">>),
           Spacer(p),
           Holder(p, "Table", "main_layout", <<>>,
                  << Named("metrics_table",
                           create_metrics_table("Key Metrics",
                                                shoulder_metrics)),
                     Named("angular_table",
                           create_angular_velocity_table(self_metrics)),
                     Named("stress_table",
                           create_stress_table(self_metrics)) >>) >>

(* The plots of the detail pages.                                          *)

\* lines 606-611
sha_plot ==
    create_time_series_plot(<<-36, 15>>, fp_time_default, mer_time_default,
                            rel_time_default, "Shoulder Horizontal Abduction")

\* lines 615-620
sab_plot ==
    create_time_series_plot(<<80, 100>>, fp_time_default, mer_time_default,
                            rel_time_default, "Shoulder Abduction")

\* lines 624-629
ser_plot ==
    create_time_series_plot(<<14, 188>>, fp_time_default, mer_time_default,
                            rel_time_default, "Shoulder External Rotation")

\* lines 797-803
elbow_plot ==
    create_time_series_plot(<<20, 124>>, fp_time_default, mer_time_default,
                            rel_time_default, "Elbow Flexion")

\* lines 878-884
force_plot ==
    create_time_series_plot(None, fp_time_default, mer_time_default,
                            rel_time_default, "Shoulder Force")

\* lines 888-894
torque_plot ==
    create_time_series_plot(None, fp_time_default, mer_time_default,
                            rel_time_default, "Shoulder Torque")

\* lines 898-904
elbow_torque_plot ==
    create_time_series_plot(None, fp_time_default, mer_time_default,
                            rel_time_default, "Elbow Torque")

\* lines 998-1004
tft_plot ==
    create_time_series_plot(<<9, 40>>, fp_time_default, mer_time_default,
                            rel_time_default, "Trunk Forward Tilt")

\* lines 1008-1014
tlt_plot ==
    create_time_series_plot(<<-10, 29>>, fp_time_default, mer_time_default,
                            rel_time_default, "Trunk Lateral Tilt")

\* lines 1018-1024
tr_plot ==
    create_time_series_plot(<<-24, 118>>, fp_time_default, mer_time_default,
                            rel_time_default, "Trunk Rotation")

\* lines 1127-1133
pft_plot ==
    create_time_series_plot(<<0, 56>>, fp_time_default, mer_time_default,
                            rel_time_default, "Pelvic Forward Tilt")

\* lines 1137-1143
plt_plot ==
    create_time_series_plot(<<-5, 13>>, fp_time_default, mer_time_default,
                            rel_time_default, "Pelvic Lateral Tilt")

\* lines 1147-1153
pr_plot ==
    create_time_series_plot(<<-14, 76>>, fp_time_default, mer_time_default,
                            rel_time_default, "Pelvic Rotation")

\* lines 1255-1261
hss_plot ==
    create_time_series_plot(<<32, 52>>, fp_time_default, mer_time_default,
                            rel_time_default, "Hip-Shoulder Separation")

\* line 744
kin_plot == create_kinematic_sequence_plot

\* line 829
arm_slot_plot == create_arm_slot_diagram(62)

(* The tables of the detail pages: the literal cell texts and the literal  *)
(* background colours.                                                     *)

\* sha_data (lines 637-642) and the BACKGROUND commands of its style
\* (lines 658-669)
sha_table ==
    Named("sha_table",
        [data |->
            << << Fmt("", <<>>),
               Fmt("Mean +/- Std Dev", <<>>),
               Fmt("Reference", <<>>) >>,
               << Fmt("FP", <<>>),
               Fmt("{}deg +/- {}deg", <<-440, 10>>),
               Fmt("{}deg - {}deg", <<-120, -360>>) >>,
               << Fmt("MER", <<>>),
               Fmt("{}deg +/- {}deg", <<-40, 20>>),
               Fmt("{}deg - {}deg", <<-70, 150>>) >>,
               << Fmt("REL", <<>>),
               Fmt("{}deg +/- {}deg", <<10, 10>>),
               Fmt("{}deg - {}deg", <<-10, 230>>) >> >>,
         styles |->
            << Bg(0, 0, -1, 0, COLORS["navy"]),
               Bg(1, 1, 1, 1, COLORS["red"]),
               Bg(1, 2, 1, 2, COLORS["green"]),
               Bg(1, 3, 1, 3, COLORS["green"]) >>])

\* sab_data (lines 644-649) and the BACKGROUND commands of its style
\* (lines 675-685)
sab_table ==
    Named("sab_table",
        [data |->
            << << Fmt("", <<>>),
               Fmt("Mean +/- Std Dev", <<>>),
               Fmt("Reference", <<>>) >>,
               << Fmt("FP", <<>>),
               Fmt("{}deg +/- {}deg", <<910, 20>>),
               Fmt("{}deg - {}deg", <<800, 1000>>) >>,
               << Fmt("MER", <<>>),
               Fmt("{}deg +/- {}deg", <<1020, 6>>),
               Fmt("{}deg - {}deg", <<820, 980>>) >>,
               << Fmt("REL", <<>>),
               Fmt("{}deg +/- {}deg", <<990, 10>>),
               Fmt("{}deg - {}deg", <<820, 980>>) >> >>,
         styles |->
            << Bg(0, 0, -1, 0, COLORS["navy"]),
               Bg(1, 1, 1, 1, COLORS["green"]),
               Bg(1, 2, 1, 2, COLORS["yellow"]),
               Bg(1, 3, 1, 3, COLORS["yellow"]) >>])

\* ser_data (lines 651-656) and the BACKGROUND commands of its style
\* (lines 688-698)
ser_table ==
    Named("ser_table",
        [data |->
            << << Fmt("", <<>>),
               Fmt("Mean +/- Std Dev", <<>>),
               Fmt("Reference", <<>>) >>,
               << Fmt("FP", <<>>),
               Fmt("{}deg +/- {}deg", <<480, 40>>),
               Fmt("{}deg - {}deg", <<140, 900>>) >>,
               << Fmt("MER", <<>>),
               Fmt("{}deg +/- {}deg", <<1930, 10>>),
               Fmt("{}deg - {}deg", <<1700, 1880>>) >>,
               << Fmt("REL", <<>>),
               Fmt("{}deg +/- {}deg", <<1230, 30>>),
               Fmt("{}deg - {}deg", <<970, 1210>>) >> >>,
         styles |->
            << Bg(0, 0, -1, 0, COLORS["navy"]),
               Bg(1, 1, 1, 1, COLORS["green"]),
               Bg(1, 2, 1, 2, COLORS["yellow"]),
               Bg(1, 3, 1, 3, COLORS["yellow"]) >>])

\* peak_data (lines 754-760) and the BACKGROUND commands of its style
\* (lines 763-775)
peak_table ==
    Named("peak_table",
        [data |->
            << << Fmt("", <<>>),
               Fmt("Order", <<>>),
               Fmt("Mean +/- Std Dev", <<>>),
               Fmt("Reference", <<>>) >>,
               << Fmt("Pelvis", <<>>),
               Fmt("1", <<>>),
               Fmt("{}deg/s +/- {}deg/s", <<5940, 200>>),
               Fmt("{}deg/s - {}deg/s", <<5810, 8110>>) >>,
               << Fmt("Trunk", <<>>),
               Fmt("2", <<>>),
               Fmt("{}deg/s +/- {}deg/s", <<10600, 330>>),
               Fmt("{}deg/s - {}deg/s", <<8610, 11870>>) >>,
               << Fmt("Elbow", <<>>),
               Fmt("3", <<>>),
               Fmt("{}deg/s +/- {}deg/s", <<22090, 580>>),
               Fmt("{}deg/s - {}deg/s", <<20300, 25420>>) >>,
               << Fmt("Shoulder", <<>>),
               Fmt("4", <<>>),
               Fmt("{}deg/s +/- {}deg/s", <<42770, 1620>>),
               Fmt("{}deg/s - {}deg/s", <<38010, 49230>>) >> >>,
         styles |->
            << Bg(0, 0, -1, 0, COLORS["navy"]),
               Bg(2, 1, 2, 1, COLORS["green"]),
               Bg(2, 2, 2, 2, COLORS["green"]),
               Bg(2, 3, 2, 3, COLORS["green"]),
               Bg(2, 4, 2, 4, COLORS["green"]) >>])

\* elbow_data (lines 808-813) and the BACKGROUND commands of its style
\* (lines 816-826)
elbow_table ==
    Named("elbow_table",
        [data |->
            << << Fmt("", <<>>),
               Fmt("Mean +/- Std Dev", <<>>),
               Fmt("Reference", <<>>) >>,
               << Fmt("FP", <<>>),
               Fmt("{}deg +/- {}deg", <<1130, 10>>),
               Fmt("{}deg - {}deg", <<940, 1240>>) >>,
               << Fmt("MER", <<>>),
               Fmt("{}deg +/- {}deg", <<860, 10>>),
               Fmt("{}deg - {}deg", <<740, 940>>) >>,
               << Fmt("REL", <<>>),
               Fmt("{}deg +/- {}deg", <<300, 10>>),
               Fmt("{}deg - {}deg", <<200, 300>>) >> >>,
         styles |->
            << Bg(0, 0, -1, 0, COLORS["navy"]),
               Bg(1, 1, 1, 1, COLORS["green"]),
               Bg(1, 2, 1, 2, COLORS["green"]),
               Bg(1, 3, 1, 3, COLORS["green"]) >>])

\* force_data (lines 911-915) and the BACKGROUND commands of its style
\* (lines 941-950)
force_table ==
    Named("force_table",
        [data |->
            << << Fmt("", <<>>),
               Fmt("Mean +/- Std Dev", <<>>),
               Fmt("Reference", <<>>) >>,
               << Fmt("Max (N)", <<>>),
               Fmt("{}N +/- {}N", <<12380, 660>>),
               Fmt("{}N - {}N", <<13610, 19290>>) >>,
               << Fmt("Max (%BW)", <<>>),
               Fmt("{}% +/- {}%", <<1290, 70>>),
               Fmt("{}% - {}%", <<1760, 2240>>) >> >>,
         styles |->
            << Bg(0, 0, -1, 0, COLORS["navy"]),
               Bg(1, 1, 1, 1, COLORS["green"]),
               Bg(1, 2, 1, 2, COLORS["red"]) >>])

\* shoulder_torque_data (lines 917-923) and the BACKGROUND commands of its style
\* (lines 931-938)
shoulder_t_table ==
    Named("shoulder_t_table",
        [data |->
            << << Fmt("", <<>>),
               Fmt("Mean +/- Std Dev", <<>>),
               Fmt("Reference", <<>>) >>,
               << Fmt("Horiz Abd Max (Nm)", <<>>),
               Fmt("{}Nm +/- {}Nm", <<2350, 830>>),
               Fmt("", <<>>) >>,
               << Fmt("Horiz Abd Max (%BWH)", <<>>),
               Fmt("{}% +/- {}%", <<90, 10>>),
               Fmt("", <<>>) >>,
               << Fmt("Int Rot Max (Nm)", <<>>),
               Fmt("{}Nm +/- {}Nm", <<2360, 150>>),
               Fmt("{}Nm - {}Nm", <<1510, 2770>>) >>,
               << Fmt("Int Rot Max (%BWH)", <<>>),
               Fmt("{}% +/- {}%", <<50, 10>>),
               Fmt("{}% - {}%", <<170, 290>>) >> >>,
         styles |->
            << Bg(0, 0, -1, 0, COLORS["navy"]) >>])

\* elbow_torque_data (lines 925-929) and the BACKGROUND commands of its style
\* (lines 956-965)
elbow_t_table ==
    Named("elbow_t_table",
        [data |->
            << << Fmt("", <<>>),
               Fmt("Mean +/- Std Dev", <<>>),
               Fmt("Reference", <<>>) >>,
               << Fmt("Max (Nm)", <<>>),
               Fmt("{}Nm +/- {}Nm", <<1300, 110>>),
               Fmt("{}Nm - {}Nm", <<1150, 1710>>) >>,
               << Fmt("Max (%BWH)", <<>>),
               Fmt("{}% +/- {}%", <<60, 0>>),
               Fmt("{}% - {}%", <<130, 170>>) >> >>,
         styles |->
            << Bg(0, 0, -1, 0, COLORS["navy"]),
               Bg(1, 1, 1, 1, COLORS["green"]),
               Bg(1, 2, 1, 2, COLORS["red"]) >>])

\* tft_data (lines 1031-1036) and the BACKGROUND commands of its style
\* (lines 1053-1063)
tft_table ==
    Named("tft_table",
        [data |->
            << << Fmt("", <<>>),
               Fmt("Mean +/- Std Dev", <<>>),
               Fmt("Reference", <<>>) >>,
               << Fmt("FP", <<>>),
               Fmt("{}deg +/- {}deg", <<130, 10>>),
               Fmt("{}deg - {}deg", <<90, 210>>) >>,
               << Fmt("MER", <<>>),
               Fmt("{}deg +/- {}deg", <<330, 10>>),
               Fmt("{}deg - {}deg", <<100, 220>>) >>,
               << Fmt("REL", <<>>),
               Fmt("{}deg +/- {}deg", <<480, 10>>),
               Fmt("{}deg - {}deg", <<260, 400>>) >> >>,
         styles |->
            << Bg(0, 0, -1, 0, COLORS["navy"]),
               Bg(1, 1, 1, 1, COLORS["green"]),
               Bg(1, 2, 1, 2, COLORS["yellow"]),
               Bg(1, 3, 1, 3, COLORS["yellow"]) >>])

\* tlt_data (lines 1038-1043) and the BACKGROUND commands of its style
\* (lines 1066-1076)
tlt_table ==
    Named("tlt_table",
        [data |->
            << << Fmt("", <<>>),
               Fmt("Mean +/- Std Dev", <<>>),
               Fmt("Reference", <<>>) >>,
               << Fmt("FP", <<>>),
               Fmt("{}deg +/- {}deg", <<40, 8>>),
               Fmt("{}deg - {}deg", <<-100, 0>>) >>,
               << Fmt("MER", <<>>),
               Fmt("{}deg +/- {}deg", <<150, 5>>),
               Fmt("{}deg - {}deg", <<130, 290>>) >>,
               << Fmt("REL", <<>>),
               Fmt("{}deg +/- {}deg", <<80, 5>>),
               Fmt("{}deg - {}deg", <<80, 280>>) >> >>,
         styles |->
            << Bg(0, 0, -1, 0, COLORS["navy"]),
               Bg(1, 1, 1, 1, COLORS["yellow"]),
               Bg(1, 2, 1, 2, COLORS["green"]),
               Bg(1, 3, 1, 3, COLORS["green"]) >>])

\* tr_data (lines 1045-1050) and the BACKGROUND commands of its style
\* (lines 1079-1089)
tr_table ==
    Named("tr_table",
        [data |->
            << << Fmt("", <<>>),
               Fmt("Mean +/- Std Dev", <<>>),
               Fmt("Reference", <<>>) >>,
               << Fmt("FP", <<>>),
               Fmt("{}deg +/- {}deg", <<1090, 20>>),
               Fmt("{}deg - {}deg", <<950, 1180>>) >>,
               << Fmt("MER", <<>>),
               Fmt("{}deg +/- {}deg", <<-60, 8>>),
               Fmt("{}deg - {}deg", <<-50, 150>>) >>,
               << Fmt("REL", <<>>),
               Fmt("{}deg +/- {}deg", <<-200, 7>>),
               Fmt("{}deg - {}deg", <<-40, -240>>) >> >>,
         styles |->
            << Bg(0, 0, -1, 0, COLORS["navy"]),
               Bg(1, 1, 1, 1, COLORS["green"]),
               Bg(1, 2, 1, 2, COLORS["green"]),
               Bg(1, 3, 1, 3, COLORS["green"]) >>])

\* pft_data (lines 1160-1165) and the BACKGROUND commands of its style
\* (lines 1182-1192)
pft_table ==
    Named("pft_table",
        [data |->
            << << Fmt("", <<>>),
               Fmt("Mean +/- Std Dev", <<>>),
               Fmt("Reference", <<>>) >>,
               << Fmt("FP", <<>>),
               Fmt("{}deg +/- {}deg", <<70, 6>>),
               Fmt("{}deg - {}deg", <<0, 140>>) >>,
               << Fmt("MER", <<>>),
               Fmt("{}deg +/- {}deg", <<450, 10>>),
               Fmt("{}deg - {}deg", <<320, 460>>) >>,
               << Fmt("REL", <<>>),
               Fmt("{}deg +/- {}deg", <<550, 20>>),
               Fmt("{}deg - {}deg", <<400, 560>>) >> >>,
         styles |->
            << Bg(0, 0, -1, 0, COLORS["navy"]),
               Bg(1, 1, 1, 1, COLORS["green"]),
               Bg(1, 2, 1, 2, COLORS["green"]),
               Bg(1, 3, 1, 3, COLORS["green"]) >>])

\* plt_data (lines 1167-1172) and the BACKGROUND commands of its style
\* (lines 1195-1205)
plt_table ==
    Named("plt_table",
        [data |->
            << << Fmt("", <<>>),
               Fmt("Mean +/- Std Dev", <<>>),
               Fmt("Reference", <<>>) >>,
               << Fmt("FP", <<>>),
               Fmt("{}deg +/- {}deg", <<60, 20>>),
               Fmt("{}deg - {}deg", <<-30, 50>>) >>,
               << Fmt("MER", <<>>),
               Fmt("{}deg +/- {}deg", <<20, 10>>),
               Fmt("{}deg - {}deg", <<-30, 130>>) >>,
               << Fmt("REL", <<>>),
               Fmt("{}deg +/- {}deg", <<-50, 20>>),
               Fmt("{}deg - {}deg", <<-50, 110>>) >> >>,
         styles |->
            << Bg(0, 0, -1, 0, COLORS["navy"]),
               Bg(1, 1, 1, 1, COLORS["yellow"]),
               Bg(1, 2, 1, 2, COLORS["green"]),
               Bg(1, 3, 1, 3, COLORS["green"]) >>])

\* pr_data (lines 1174-1179) and the BACKGROUND commands of its style
\* (lines 1208-1218)
pr_table ==
    Named("pr_table",
        [data |->
            << << Fmt("", <<>>),
               Fmt("Mean +/- Std Dev", <<>>),
               Fmt("Reference", <<>>) >>,
               << Fmt("FP", <<>>),
               Fmt("{}deg +/- {}deg", <<570, 30>>),
               Fmt("{}deg - {}deg", <<300, 760>>) >>,
               << Fmt("MER", <<>>),
               Fmt("{}deg +/- {}deg", <<-90, 20>>),
               Fmt("{}deg - {}deg", <<-100, 60>>) >>,
               << Fmt("REL", <<>>),
               Fmt("{}deg +/- {}deg", <<-110, 20>>),
               Fmt("{}deg - {}deg", <<-140, 20>>) >> >>,
         styles |->
            << Bg(0, 0, -1, 0, COLORS["navy"]),
               Bg(1, 1, 1, 1, COLORS["green"]),
               Bg(1, 2, 1, 2, COLORS["green"]),
               Bg(1, 3, 1, 3, COLORS["green"]) >>])

\* hss_data (lines 1277-1282) and the BACKGROUND commands of its style
\* (lines 1285-1293)
hss_table ==
    Named("hss_table",
        [data |->
            << << Fmt("", <<>>),
               Fmt("Mean +/- Std Dev", <<>>),
               Fmt("Reference", <<>>) >>,
               << Fmt("FP", <<>>),
               Fmt("{}deg +/- {}deg", <<510, 20>>),
               Fmt("{}deg - {}deg", <<320, 520>>) >>,
               << Fmt("MER", <<>>),
               Fmt("{}deg +/- {}deg", <<110, 20>>),
               Fmt("", <<>>) >>,
               << Fmt("REL", <<>>),
               Fmt("{}deg +/- {}deg", <<60, 30>>),
               Fmt("", <<>>) >> >>,
         styles |->
            << Bg(0, 0, -1, 0, COLORS["navy"]),
               Bg(1, 1, 1, 1, COLORS["green"]) >>])

\* arm_slot_info (lines 832-838) and its style (lines 841-845)
arm_slot_table ==
    Named("arm_slot_table",
        [data |->
            << << Fmt("Arm Slot", <<>>) >>,
               << FontFmt("Arm Slot (deg): {}deg +/- {}deg", <<620, 20>>,
                          "#0088CC", "") >>,
               << FontFmt("Arm Slot: {}", <<>>, "#0088CC",
                          "Low Three-Quarter") >> >>,
         styles |-> <<>>])

generate_shoulder_page ==
    LET p == "generate_shoulder_page"
    IN  << Flowable(p, "Paragraph", "header", <<"Shoulder">>),
           Spacer(p),
           Holder(p, "Table", "plots_layout",
                  <<sha_plot, sab_plot, ser_plot>>,
                  <<sha_table, sab_table, ser_table>>),
           Spacer(p),
           Flowable(p, "Paragraph", "timing_text", <<"Timing: On Time">>) >>

generate_kinematic_sequence_page ==
    LET p == "generate_kinematic_sequence_page"
    IN  << Flowable(p, "Paragraph", "header", <<"Kinematic Sequence">>),
           Spacer(p),
           Holder(p, "Image", "kin_img", <<kin_plot>>, <<>>),
           Spacer(p),
           Holder(p, "Table", "peak_table", <<>>, <<peak_table>>) >>

generate_elbow_arm_slot_page ==
    LET p == "generate_elbow_arm_slot_page"
    IN  << Flowable(p, "Paragraph", "header", <<"Elbow / Arm Slot">>),
           Spacer(p),
           Holder(p, "Table", "layout", <<elbow_plot, arm_slot_plot>>,
                  <<elbow_table, arm_slot_table>>) >>

generate_stress_page ==
    LET p == "generate_stress_page"
    IN  << Flowable(p, "Paragraph", "header", <<"Throwing Arm Stress">>),
           Spacer(p),
           Holder(p, "Table", "layout",
                  <<force_plot, torque_plot, elbow_torque_plot>>,
                  <<force_table, shoulder_t_table, elbow_t_table>>) >>

generate_trunk_page ==
    LET p == "generate_trunk_page"
    IN  << Flowable(p, "Paragraph", "header", <<"Trunk">>),
           Spacer(p),
           Holder(p, "Table", "layout", <<tft_plot, tlt_plot, tr_plot>>,
                  <<tft_table, tlt_table, tr_table>>),
           Spacer(p),
           Flowable(p, "Paragraph", "timing", <<"Timing: On Time">>) >>

generate_pelvis_page ==
    LET p == "generate_pelvis_page"
    IN  << Flowable(p, "Paragraph", "header", <<"Pelvis">>),
           Spacer(p),
           Holder(p, "Table", "layout", <<pft_plot, plt_plot, pr_plot>>,
                  <<pft_table, plt_table, pr_table>>),
           Spacer(p),
           Flowable(p, "Paragraph", "timing", <<"Timing: On Time">>) >>

generate_hip_shoulder_separation_page ==
    LET p == "generate_hip_shoulder_separation_page"
    IN  << Flowable(p, "Paragraph", "header", <<"Hip-Shoulder Separation">>),
           Spacer(p),
           Holder(p, "Table", "layout", <<hss_plot>>, <<hss_table>>) >>

generate_report_info_page ==
    LET p == "generate_report_info_page"
    IN  << Flowable(p, "Paragraph", "header", <<"Report Information">>),
           Spacer(p),
           Flowable(p, "Table", "layout", <<>>) >>

\* the list a page generator returns
PageElements(p) ==
    CASE p = "generate_summary_page" -> generate_summary_page
      [] p = "generate_shoulder_page" -> generate_shoulder_page
      [] p = "generate_elbow_arm_slot_page" -> generate_elbow_arm_slot_page
      [] p = "generate_stress_page" -> generate_stress_page
      [] p = "generate_trunk_page" -> generate_trunk_page
      [] p = "generate_pelvis_page" -> generate_pelvis_page
      [] p = "generate_hip_shoulder_separation_page" ->
             generate_hip_shoulder_separation_page
      [] p = "generate_kinematic_sequence_page" ->
             generate_kinematic_sequence_page
      [] p = "generate_report_info_page" -> generate_report_info_page

----
(* MocapReportGenerator.set_metrics and generate_report.                   *)

\* no generate_report call is running: the caller has control
CallerHasControl == pc \in {"idle", "returned", "raised"}

\* set_metrics(metrics_dict): the caller passes one of its dicts, or None
set_metrics(m) ==
    /\ CallerHasControl
    /\ metrics' = m
    /\ UNCHANGED <<player_name, date, velocity_range, output_path>>
    /\ UNCHANGED <<globalVars, classifierVars, heap, reportVars>>
    /\ UNCHANGED extraVars

\* variant: the pages are called in the order the methods are defined
REPORT_PAGES_definition_order ==
    << "generate_summary_page", "generate_shoulder_page",
       "generate_kinematic_sequence_page", "generate_elbow_arm_slot_page",
       "generate_stress_page", "generate_trunk_page", "generate_pelvis_page",
       "generate_hip_shoulder_separation_page", "generate_report_info_page" >>

\* the page generators in the order generate_report calls them
REPORT_PAGES ==
    << "generate_summary_page", "generate_shoulder_page",
       "generate_elbow_arm_slot_page", "generate_stress_page",
       "generate_trunk_page", "generate_pelvis_page",
       "generate_hip_shoulder_separation_page",
       "generate_kinematic_sequence_page", "generate_report_info_page" >>

\* the heaps a page generator can leave behind when it returns normally
HeapAfterPage(p) ==
    IF p = "generate_summary_page" THEN SummaryMetricsWrite(heap, metrics)
    ELSE heap

\* the heaps a page generator can leave behind when it raises: the summary
\* page fails at its first write into self.metrics when that is None, and
\* otherwise in a library call before or after the two writes
HeapsAfterRaise(p) ==
    IF p = "generate_summary_page" /\ metrics # NoneRef
    THEN {heap, SummaryMetricsWrite(heap, metrics)}
    ELSE {heap}

\* a page generator that cannot return normally in the current state
MustRaise(p) == p = "generate_summary_page" /\ metrics = NoneRef

\* the dictionary self.metrics refers to, None being the empty tuple
MetricsNow == IF metrics = NoneRef THEN <<>> ELSE <<heap[metrics]>>

\* variant: the document is created at the default file name
GenerateReportBegin_default_path ==
    /\ CallerHasControl
    /\ pc' = "page"
    /\ page_idx' = 1
    /\ doc_path' = "mocap_report.pdf"
    /\ elements' = <<>>
    /\ returned' = NoneRef
    /\ called' = <<>>
    /\ raised_in' = NoneRef
    /\ call_metrics' = MetricsNow
    /\ UNCHANGED <<files, ctor_output_path, first_return>>
    /\ UNCHANGED <<globalVars, classifierVars, selfVars, heap>>
    /\ UNCHANGED extraVars

\* variant: the list elements outlives the call and is not emptied at entry
GenerateReportBegin_keeps_elements ==
    /\ CallerHasControl
    /\ pc' = "page"
    /\ page_idx' = 1
    /\ doc_path' = output_path
    /\ returned' = NoneRef
    /\ called' = <<>>
    /\ raised_in' = NoneRef
    /\ call_metrics' = MetricsNow
    /\ UNCHANGED <<elements, files, ctor_output_path, first_return>>
    /\ UNCHANGED <<globalVars, classifierVars, selfVars, heap>>
    /\ UNCHANGED extraVars

\* generate_report, entry: doc = SimpleDocTemplate(self.output_path, ...),
\* elements = []
GenerateReportBegin ==
    /\ CallerHasControl
    /\ pc' = "page"
    /\ page_idx' = 1
    /\ doc_path' = output_path
    /\ elements' = <<>>
    /\ returned' = NoneRef
    /\ called' = <<>>
    /\ raised_in' = NoneRef
    /\ call_metrics' = MetricsNow
    /\ UNCHANGED <<files, ctor_output_path, first_return>>
    /\ UNCHANGED <<globalVars, classifierVars, selfVars, heap>>
    /\ UNCHANGED extraVars

\* variant: a page break is appended after every page, the last included
GenerateReportPage_break_after_last ==
    /\ pc = "page"
    /\ LET p == REPORT_PAGES[page_idx]
           last == page_idx = Len(REPORT_PAGES)
       IN  /\ ~MustRaise(p)
           /\ elements' = elements \o PageElements(p) \o <<PageBreak>>
           /\ heap' = HeapAfterPage(p)
           /\ called' = Append(called, p)
           /\ page_idx' = page_idx + 1
           /\ pc' = IF last THEN "build" ELSE "page"
    /\ UNCHANGED <<doc_path, files, returned, ctor_output_path, raised_in>>
    /\ UNCHANGED <<call_metrics, first_return>>
    /\ UNCHANGED <<globalVars, classifierVars, selfVars>>
    /\ UNCHANGED extraVars

\* generate_report: elements.extend(self.generate_..._page()) followed, for
\* all pages but the last, by elements.append(PageBreak())
GenerateReportPage ==
    /\ pc = "page"
    /\ LET p == REPORT_PAGES[page_idx]
           last == page_idx = Len(REPORT_PAGES)
       IN  /\ ~MustRaise(p)
           /\ elements' = elements \o PageElements(p)
                              \o (IF last THEN <<>> ELSE <<PageBreak>>)
           /\ heap' = HeapAfterPage(p)
           /\ called' = Append(called, p)
           /\ page_idx' = page_idx + 1
           /\ pc' = IF last THEN "build" ELSE "page"
    /\ UNCHANGED <<doc_path, files, returned, ctor_output_path, raised_in>>
    /\ UNCHANGED <<call_metrics, first_return>>
    /\ UNCHANGED <<globalVars, classifierVars, selfVars>>
    /\ UNCHANGED extraVars

\* variant: the exception of a page generator is caught and the page skipped
GenerateReportPageRaise_caught ==
    /\ pc = "page"
    /\ LET p == REPORT_PAGES[page_idx]
           last == page_idx = Len(REPORT_PAGES)
       IN  /\ heap' \in HeapsAfterRaise(p)
           /\ called' = Append(called, p)
           /\ raised_in' = p
           /\ page_idx' = page_idx + 1
           /\ pc' = IF last THEN "build" ELSE "page"
    /\ UNCHANGED <<elements, doc_path, files, returned, ctor_output_path>>
    /\ UNCHANGED <<call_metrics, first_return>>
    /\ UNCHANGED <<globalVars, classifierVars, selfVars>>
    /\ UNCHANGED extraVars

\* generate_report: the page generator it calls raises; nothing catches the
\* exception, so the call ends and the local elements list is dropped
GenerateReportPageRaise ==
    /\ pc = "page"
    /\ LET p == REPORT_PAGES[page_idx]
       IN  /\ heap' \in HeapsAfterRaise(p)
           /\ called' = Append(called, p)
           /\ raised_in' = p
    /\ pc' = "raised"
    /\ elements' = <<>>
    /\ UNCHANGED <<page_idx, doc_path, files, returned, ctor_output_path>>
    /\ UNCHANGED <<call_metrics, first_return>>
    /\ UNCHANGED <<globalVars, classifierVars, selfVars>>
    /\ UNCHANGED extraVars

\* generate_report: doc.build(elements) writes the document, then
\* return self.output_path
GenerateReportBuild ==
    /\ pc = "build"
    /\ called' = Append(called, "doc.build")
    /\ files' = [files EXCEPT ![doc_path] = elements]
    /\ returned' = output_path
    /\ pc' = "returned"
    /\ first_return' =
           IF first_return = <<>>
           THEN <<[given |-> call_metrics, elements |-> elements,
                   after |-> MetricsNow]>>
           ELSE first_return
    /\ UNCHANGED <<page_idx, doc_path, elements, ctor_output_path, raised_in>>
    /\ UNCHANGED call_metrics
    /\ UNCHANGED <<globalVars, classifierVars, selfVars, heap>>
    /\ UNCHANGED extraVars

\* generate_report: doc.build(elements) raises; no document is written
GenerateReportBuildRaise ==
    /\ pc = "build"
    /\ called' = Append(called, "doc.build")
    /\ raised_in' = "doc.build"
    /\ pc' = "raised"
    /\ elements' = <<>>
    /\ UNCHANGED <<page_idx, doc_path, files, returned, ctor_output_path>>
    /\ UNCHANGED <<call_metrics, first_return>>
    /\ UNCHANGED <<globalVars, classifierVars, selfVars, heap>>
    /\ UNCHANGED extraVars

\* the caller calls generate_summary_page itself, outside generate_report
SummaryPageCall ==
    /\ CallerHasControl
    /\ metrics # NoneRef
    /\ heap' = SummaryMetricsWrite(heap, metrics)
    /\ UNCHANGED <<globalVars, classifierVars, selfVars, reportVars>>
    /\ UNCHANGED extraVars

----
(* The table builders called on their own, on drawn arguments.             *)

NoTable == [data |-> <<>>, styles |-> <<>>]

\* rows of a metrics_list: a value below, inside or above the range at FP
\* and MER, with and without a reference range
MetricRows ==
    {<< "Knee Flexion", v, 1, w, 2, 1, 1, r, q, <<1, 2>> >> :
        v \in {0, 1}, w \in {5}, r \in {None, <<1, 2>>},
        q \in {None, <<1, 2>>}}
    \cup {<< "Elbow Flexion", 3, 1, 4, 2, 2, 1, <<1, 2>>, <<1, 2>>, None >>}

RECURSIVE SeqsUpTo(_, _)
SeqsUpTo(S, n) ==
    IF n = 0 THEN {<<>>}
    ELSE LET shorter == SeqsUpTo(S, n - 1)
         IN  shorter \cup {Append(q, x) : q \in shorter, x \in S}

MetricsLists == SeqsUpTo(MetricRows, MaxRows)

\* dictionaries self.metrics can refer to: values at and next to the bounds
\* of the reference ranges, and missing keys
MetricsDicts ==
    {[angular_velocities |->
          [knee |-> 0 - 338, pelvis |-> x[1], trunk |-> 1060, elbow |-> y[1],
           shoulder |-> 4277],
      stress |->
          [shoulder_force |-> x[2], shoulder_torque |-> 29,
           elbow_torque |-> y[2]]] :
        x \in {<<580, 175>>, <<581, 176>>, <<811, 224>>, <<812, 225>>},
        y \in {<<2030, 6>>, <<2543, 13>>}}
    \cup {[angular_velocities |-> [pelvis |-> 594, trunk |-> 860],
           stress |-> [shoulder_torque |-> 30]],
          EmptyDict}

\* a call self._create_metrics_table('Key Metrics', metrics_list)
CreateMetricsTableCall ==
    /\ table' = create_metrics_table("Key Metrics", metrics_list)
    /\ table_builder' = "_create_metrics_table"
    /\ UNCHANGED metrics_list
    /\ UNCHANGED <<globalVars, classifierVars, selfVars, heap, reportVars>>
    /\ UNCHANGED <<scriptVars, mainVars, animVars>>

\* a call self._create_angular_velocity_table()
CreateAngularVelocityTableCall ==
    /\ table' = create_angular_velocity_table(heap[metrics])
    /\ table_builder' = "_create_angular_velocity_table"
    /\ UNCHANGED metrics_list
    /\ UNCHANGED <<globalVars, classifierVars, selfVars, heap, reportVars>>
    /\ UNCHANGED <<scriptVars, mainVars, animVars>>

\* a call self._create_stress_table()
CreateStressTableCall ==
    /\ table' = create_stress_table(heap[metrics])
    /\ table_builder' = "_create_stress_table"
    /\ UNCHANGED metrics_list
    /\ UNCHANGED <<globalVars, classifierVars, selfVars, heap, reportVars>>
    /\ UNCHANGED <<scriptVars, mainVars, animVars>>

----
(* Tables of pitches (pandas DataFrames) and their column statistics, as   *)
(* pitching_report.py and load_and_process_data compute them.  A numeric   *)
(* cell is the one-element tuple <<v>> or NaN, the empty tuple.  A row     *)
(* carries its index label.  A mean or std is a float: it is held in       *)
(* hundredths, truncated.                                                  *)

NaN == <<>>

DataFrame(rows) == [columns |-> <<"pitch_speed_mph", "p_throws", "arm_slot">>,
                    rows |-> rows]

\* the rows of the table with index labels 0, 1, ... as pandas assigns them
WithIndex(cells) ==
    [i \in 1..Len(cells) |->
        [index |-> i - 1, pitch_speed_mph |-> cells[i][1],
         p_throws |-> cells[i][2], arm_slot |-> cells[i][3]]]

\* the cells of a row: speeds and arm slots at and next to the filter's
\* bounds, a missing arm slot, both throwing hands
PitchRows ==
    {<< <<s>>, h, a >> :
        s \in {88, 89, 95}, h \in {"R", "L"},
        a \in {<<38>>, <<39>>, <<45>>, <<46>>, NaN}}

PitchTables == {DataFrame(WithIndex(c)) : c \in SeqsUpTo(PitchRows, MaxRows)}

\* df[col]
Column(df, col) == [i \in 1..Len(df.rows) |-> df.rows[i][col]]

\* the dtype pandas gives a column: object for strings and for a column of
\* a table without rows, float64 when a value is missing, int64 otherwise
Dtype(df, col) ==
    IF col = "p_throws" \/ df.rows = <<>> THEN "object"
    ELSE IF \E i \in 1..Len(df.rows) : df.rows[i][col] = NaN THEN "float64"
         ELSE "int64"

\* pd.api.types.is_numeric_dtype
is_numeric_dtype(dtype) == dtype \in {"int64", "float64", "bool"}

\* comparisons of a numeric cell with a number: False on NaN
CellGt(x, k) == x # NaN /\ x[1] > k
CellLt(x, k) == x # NaN /\ x[1] < k
CellBetween(x, lo, hi) == x # NaN /\ lo <= x[1] /\ x[1] <= hi

\* variant: the lower speed bound is inclusive
FilterMask_inclusive_speed(row) ==
    /\ row.pitch_speed_mph # NaN /\ row.pitch_speed_mph[1] >= 88
    /\ CellLt(row.pitch_speed_mph, 95)
    /\ row.p_throws = "R"
    /\ CellBetween(row.arm_slot, 39, 45)

\* the boolean mask of pitching_report.py's filter, for one row
FilterMask(row) ==
    /\ CellGt(row.pitch_speed_mph, 88)
    /\ CellLt(row.pitch_speed_mph, 95)
    /\ row.p_throws = "R"
    /\ CellBetween(row.arm_slot, 39, 45)

\* df[mask]: the rows whose mask is True, with their index labels
BooleanIndex(df) ==
    [columns |-> df.columns,
     rows |-> SelectSeq(df.rows, LAMBDA row : FilterMask(row))]

RECURSIVE SumSeq(_)
SumSeq(xs) == IF xs = <<>> THEN 0 ELSE xs[1] + SumSeq(Tail(xs))

MaxOf(xs) == CHOOSE m \in {xs[i] : i \in 1..Len(xs)} :
                 \A i \in 1..Len(xs) : xs[i] <= m
MinOf(xs) == CHOOSE m \in {xs[i] : i \in 1..Len(xs)} :
                 \A i \in 1..Len(xs) : m <= xs[i]

\* the values of a column that are not missing
Present(col) ==
    LET kept == SelectSeq(col, LAMBDA x : x # NaN)
    IN  [i \in 1..Len(kept) |-> kept[i][1]]

\* the integer square root
ISqrt(x, upper) == CHOOSE r \in 0..upper : r * r <= x /\ x < (r + 1) * (r + 1)

\* Series.mean(): the mean of the values present, NaN when there is none
SeriesMean(col) ==
    LET xs == Present(col)
    IN  IF xs = <<>> THEN NaN ELSE <<(100 * SumSeq(xs)) \div Len(xs)>>

\* Series.std(): the sample standard deviation (ddof = 1) of the values
\* present, NaN when there are fewer than two
SeriesStd(col) ==
    LET xs == Present(col)
        n == Len(xs)
        sq == [i \in 1..n |-> xs[i] * xs[i]]
        num == n * SumSeq(sq) - SumSeq(xs) * SumSeq(xs)
    IN  IF n < 2 THEN NaN
        ELSE <<ISqrt((10000 * num) \div (n * (n - 1)),
                     100 * (MaxOf(xs) - MinOf(xs)))>>

\* the loop `for col in df.columns: if is_numeric_dtype(df[col]):
\* stats.append({column, mean, std})`
ColumnStats(df) ==
    LET numeric == SelectSeq(df.columns,
                             LAMBDA c : is_numeric_dtype(Dtype(df, c)))
    IN  [k \in 1..Len(numeric) |->
            [column |-> numeric[k],
             mean |-> SeriesMean(Column(df, numeric[k])),
             std |-> SeriesStd(Column(df, numeric[k]))]]

NoDataFrame == [columns |-> <<>>, rows |-> <<>>]

\* pd.DataFrame(stats).set_index("column").T: one row per statistic, one
\* column per entry of stats
Transposed(entries) ==
    LET names == {entries[k].column : k \in 1..Len(entries)}
        entry(c) == CHOOSE k \in 1..Len(entries) : entries[k].column = c
    IN  [mean |-> [c \in names |-> entries[entry(c)].mean],
         std |-> [c \in names |-> entries[entry(c)].std]]

(* pitching_report.py, statement by statement.                             *)

\* pitching_poi = pd.read_csv(url): the download yields some table
ReadCsv ==
    /\ script_pc = "read_csv"
    /\ pitching_poi' \in PitchTables
    /\ script_pc' = "filter"
    /\ UNCHANGED <<pitching_poi_filtered, script_stats, stats_df>>
    /\ UNCHANGED <<globalVars, classifierVars, selfVars, heap, reportVars>>
    /\ UNCHANGED <<tableVars, mainVars, animVars>>

\* pd.read_csv(url) raises (the download fails): the script ends
ReadCsvRaise ==
    /\ script_pc = "read_csv"
    /\ script_pc' = "raised"
    /\ UNCHANGED <<pitching_poi, pitching_poi_filtered, script_stats, stats_df>>
    /\ UNCHANGED <<globalVars, classifierVars, selfVars, heap, reportVars>>
    /\ UNCHANGED <<tableVars, mainVars, animVars>>

\* pitching_poi_filtered = pitching_poi[mask]
FilterRows ==
    /\ script_pc = "filter"
    /\ pitching_poi_filtered' = BooleanIndex(pitching_poi)
    /\ script_pc' = "stats"
    /\ UNCHANGED <<pitching_poi, script_stats, stats_df>>
    /\ UNCHANGED <<globalVars, classifierVars, selfVars, heap, reportVars>>
    /\ UNCHANGED <<tableVars, mainVars, animVars>>

\* stats = []; for col in pitching_poi_filtered.columns: ...
ComputeStats ==
    /\ script_pc = "stats"
    /\ script_stats' = ColumnStats(pitching_poi_filtered)
    /\ script_pc' = "stats_df"
    /\ UNCHANGED <<pitching_poi, pitching_poi_filtered, stats_df>>
    /\ UNCHANGED <<globalVars, classifierVars, selfVars, heap, reportVars>>
    /\ UNCHANGED <<tableVars, mainVars, animVars>>

\* stats_df = pd.DataFrame(stats).set_index("column").T; print(stats_df)
BuildStatsDf ==
    /\ script_pc = "stats_df"
    /\ script_stats # <<>>
    /\ stats_df' = Transposed(script_stats)
    /\ script_pc' = "done"
    /\ UNCHANGED <<pitching_poi, pitching_poi_filtered, script_stats>>
    /\ UNCHANGED <<globalVars, classifierVars, selfVars, heap, reportVars>>
    /\ UNCHANGED <<tableVars, mainVars, animVars>>

\* pd.DataFrame([]).set_index("column") raises KeyError: there is no column
\* named "column" when stats is empty
BuildStatsDfRaise ==
    /\ script_pc = "stats_df"
    /\ script_stats = <<>>
    /\ script_pc' = "raised"
    /\ UNCHANGED <<pitching_poi, pitching_poi_filtered, script_stats, stats_df>>
    /\ UNCHANGED <<globalVars, classifierVars, selfVars, heap, reportVars>>
    /\ UNCHANGED <<tableVars, mainVars, animVars>>

(* load_and_process_data and main of cltest_report.py.                     *)

\* the rows of the sample table load_and_process_data builds
SampleSpeeds == <<90, 91, 92, 91, 90>>

SampleRows == [i \in 1..Len(SampleSpeeds) |-> << <<SampleSpeeds[i]>>, "R", <<62>> >>]

SampleTables ==
    {DataFrame(WithIndex(SubSeq(SampleRows, 1, n))) :
        n \in 0..(IF MaxRows < Len(SampleRows) THEN MaxRows ELSE Len(SampleRows))}

\* text of the speed range of a table of pitches
SpeedRangeText(df) ==
    LET xs == Present(Column(df, "pitch_speed_mph"))
    IN  IF xs = <<>> THEN "no pitches"
        ELSE IF MaxOf(xs) = 90 THEN "90mph - 90mph"
        ELSE IF MaxOf(xs) = 91 THEN "90mph - 91mph"
        ELSE "90mph - 92mph"

\* main is called: a run begins
MainStart ==
    /\ main_pc \in {"idle", "returned", "raised"}
    /\ main_runs < MaxRuns
    /\ main_runs' = main_runs + 1
    /\ main_pc' = "load_and_process_data"
    /\ UNCHANGED <<pitching_data, stats, main_returns>>
    /\ UNCHANGED <<globalVars, classifierVars, selfVars, heap, reportVars>>
    /\ UNCHANGED <<tableVars, scriptVars, animVars>>

\* pitching_data, stats = load_and_process_data()
MainLoad ==
    /\ main_pc = "load_and_process_data"
    /\ \E df \in SampleTables :
           /\ pitching_data' = df
           /\ stats' = ColumnStats(df)
    /\ main_pc' = "MocapReportGenerator"
    /\ UNCHANGED <<main_runs, main_returns>>
    /\ UNCHANGED <<globalVars, classifierVars, selfVars, heap, reportVars>>
    /\ UNCHANGED <<tableVars, scriptVars, animVars>>

\* variant: the velocity range of the header is taken from the loaded data
MainConstruct_velocity_from_data ==
    /\ main_pc = "MocapReportGenerator"
    /\ player_name' = "Luke Coats"
    /\ date' = "August 29, 2025"
    /\ velocity_range' = SpeedRangeText(pitching_data)
    /\ output_path' = "mocap_report.pdf"
    /\ ctor_output_path' = "mocap_report.pdf"
    /\ metrics' = "own"
    /\ heap' = [heap EXCEPT !["own"] = EmptyDict]
    /\ pc' = "idle"
    /\ page_idx' = 1
    /\ doc_path' = NoneRef
    /\ elements' = <<>>
    /\ returned' = NoneRef
    /\ called' = <<>>
    /\ raised_in' = NoneRef
    /\ call_metrics' = <<>>
    /\ first_return' = <<>>
    /\ main_pc' = "set_metrics"
    /\ UNCHANGED <<files, pitching_data, stats, main_runs, main_returns>>
    /\ UNCHANGED <<globalVars, classifierVars>>
    /\ UNCHANGED <<tableVars, scriptVars, animVars>>

\* generator = MocapReportGenerator(player_name="Luke Coats", ...): a new
\* generator with its own empty metrics dictionary
MainConstruct ==
    /\ main_pc = "MocapReportGenerator"
    /\ player_name' = "Luke Coats"
    /\ date' = "August 29, 2025"
    /\ velocity_range' = "90mph - 92mph"
    /\ output_path' = "mocap_report.pdf"
    /\ ctor_output_path' = "mocap_report.pdf"
    /\ metrics' = "own"
    /\ heap' = [heap EXCEPT !["own"] = EmptyDict]
    /\ pc' = "idle"
    /\ page_idx' = 1
    /\ doc_path' = NoneRef
    /\ elements' = <<>>
    /\ returned' = NoneRef
    /\ called' = <<>>
    /\ raised_in' = NoneRef
    /\ call_metrics' = <<>>
    /\ first_return' = <<>>
    /\ main_pc' = "set_metrics"
    /\ UNCHANGED <<files, pitching_data, stats, main_runs, main_returns>>
    /\ UNCHANGED <<globalVars, classifierVars>>
    /\ UNCHANGED <<tableVars, scriptVars, animVars>>

\* metrics = {...}; generator.set_metrics(metrics): the dictionary literal
\* is a new object, m1
MainSetMetrics ==
    /\ main_pc = "set_metrics"
    /\ heap' = [heap EXCEPT !["m1"] = MAIN_METRICS]
    /\ metrics' = "m1"
    /\ main_pc' = "generate_report"
    /\ UNCHANGED <<player_name, date, velocity_range, output_path>>
    /\ UNCHANGED <<pitching_data, stats, main_runs, main_returns>>
    /\ UNCHANGED <<globalVars, classifierVars, reportVars>>
    /\ UNCHANGED <<tableVars, scriptVars, animVars>>

\* output_path = generator.generate_report(): the call begins
MainGenerateReport ==
    /\ main_pc = "generate_report"
    /\ pc = "idle"
    /\ GenerateReportBegin

\* return output_path: the run ends with the report generate_report built
MainReturn ==
    /\ main_pc = "generate_report"
    /\ pc = "returned"
    /\ main_pc' = "returned"
    /\ main_returns' = Append(main_returns,
                              [pitching_data |-> pitching_data,
                               stats |-> stats,
                               output_path |-> returned,
                               report |-> files[returned]])
    /\ UNCHANGED <<pitching_data, stats, main_runs>>
    /\ UNCHANGED <<globalVars, classifierVars, selfVars, heap, reportVars>>
    /\ UNCHANGED <<tableVars, scriptVars, animVars>>

\* generate_report raised: main does not catch the exception
MainRaise ==
    /\ main_pc = "generate_report"
    /\ pc = "raised"
    /\ main_pc' = "raised"
    /\ UNCHANGED <<pitching_data, stats, main_runs, main_returns>>
    /\ UNCHANGED <<globalVars, classifierVars, selfVars, heap, reportVars>>
    /\ UNCHANGED <<tableVars, scriptVars, animVars>>

----
(* animate_skeleton_hitting of abcdefg.py.  The points array of the file   *)
(* has one entry per axis, marker index and frame index; a coordinate read *)
(* from it is represented by the place it is read from.                    *)

Markers ==
    << "LFIN", "LELB", "LSHO", "C7", "RSHO", "RELB", "RFIN", "T10", "LIC",
       "LKNEE", "LANK", "RIC", "RKNEE", "RANK", "MARKER1", "MARKER2",
       "MARKER3" >>

skeleton_connections ==
    << <<"LFIN", "LELB">>, <<"LELB", "LSHO">>, <<"LSHO", "C7">>,
       <<"C7", "RSHO">>, <<"RSHO", "RELB">>, <<"RELB", "RFIN">>,
       <<"C7", "T10">>, <<"T10", "LIC">>, <<"LIC", "LKNEE">>,
       <<"LKNEE", "LANK">>, <<"T10", "RIC">>, <<"RIC", "RKNEE">>,
       <<"RKNEE", "RANK">> >>

bat_connections ==
    << <<"MARKER1", "MARKER2">>, <<"MARKER2", "MARKER3">>,
       <<"MARKER1", "MARKER3">> >>

RECURSIVE SubsetsUpTo(_, _)
SubsetsUpTo(S, k) ==
    IF k = 0 THEN {{}}
    ELSE LET smaller == SubsetsUpTo(S, k - 1)
         IN  smaller \cup {T \cup {x} : T \in smaller, x \in S}

\* the label lists of a file: the markers of the connections, in a fixed
\* order, without up to MaxMissing of them
LabelLists ==
    {SelectSeq(Markers, LAMBDA l : l \notin gone) :
        gone \in SubsetsUpTo({Markers[i] : i \in 1..Len(Markers)},
                             MaxMissing)}

\* marker_dict = {label: i for i, label in enumerate(labels)}
marker_dict(lbls) ==
    [l \in {lbls[i] : i \in 1..Len(lbls)} |->
        (CHOOSE i \in 1..Len(lbls) :
             lbls[i] = l /\ \A j \in (i + 1)..Len(lbls) : lbls[j] # l) - 1]

\* len(np.arange(first, last, step))
NumFramePoints(first, last, step) ==
    IF last <= first THEN 0 ELSE ((last - first) + (step - 1)) \div step

\* frame_points[frame_idx]
FramePoint(first, step, idx) == first + idx * step

\* the number of frames the points array holds
NumFrames(first, last) == last - first + 1

\* points[axis, marker, frame]
PointAt(axis, marker, frame) == [axis |-> axis, marker |-> marker, frame |-> frame]

EmptyLine == [xs |-> <<>>, ys |-> <<>>, zs |-> <<>>]

\* the data set_data and set_3d_properties give the line of (p1, p2)
LineData(md, p1, p2, frame) ==
    [xs |-> <<PointAt(0, md[p1], frame), PointAt(0, md[p2], frame)>>,
     ys |-> <<PointAt(1, md[p1], frame), PointAt(1, md[p2], frame)>>,
     zs |-> <<PointAt(2, md[p1], frame), PointAt(2, md[p2], frame)>>]

\* the loop over the connections in update: the line of a connection is set
\* when both its endpoints are in marker_dict, and left alone otherwise
UpdatedLines(connections, lines, md, frame) ==
    [i \in 1..Len(connections) |->
        LET p1 == connections[i][1]
            p2 == connections[i][2]
        IN  IF p1 \in DOMAIN md /\ p2 \in DOMAIN md
            THEN LineData(md, p1, p2, frame)
            ELSE lines[i]]

\* the list [scatter] + skeleton_lines + bat_lines, by object
ArtistList ==
    <<[artist |-> "scatter", i |-> 0]>>
    \o [i \in 1..Len(skeleton_connections) |->
           [artist |-> "skeleton_lines", i |-> i - 1]]
    \o [i \in 1..Len(bat_connections) |->
           [artist |-> "bat_lines", i |-> i - 1]]

\* update(frame_idx), called by FuncAnimation with a frame index below
\* len(frame_points); the frame read is a valid index of the points array
Update(idx) ==
    LET frame == FramePoint(point_first_frame, frame_step, idx)
        md == marker_dict(labels)
    IN  /\ idx < NumFramePoints(point_first_frame, point_last_frame,
                                frame_step)
        /\ frame < NumFrames(point_first_frame, point_last_frame)
        /\ frame_idx' = idx
        /\ scatter' = <<frame>>
        /\ skeleton_lines' = UpdatedLines(skeleton_connections,
                                          skeleton_lines, md, frame)
        /\ bat_lines' = UpdatedLines(bat_connections, bat_lines, md, frame)
        /\ update_result' = ArtistList
        /\ update_error' = NoneRef
        /\ UNCHANGED <<labels, point_first_frame, point_last_frame,
                       frame_step>>
        /\ UNCHANGED <<globalVars, classifierVars, selfVars, heap,
                       reportVars>>
        /\ UNCHANGED <<tableVars, scriptVars, mainVars>>

\* update(frame_idx) when the frame read is past the end of the points
\* array: points[0, :, frame] raises IndexError before anything is set
UpdateRaise(idx) ==
    LET frame == FramePoint(point_first_frame, frame_step, idx)
    IN  /\ idx < NumFramePoints(point_first_frame, point_last_frame,
                                frame_step)
        /\ frame >= NumFrames(point_first_frame, point_last_frame)
        /\ frame_idx' = idx
        /\ update_result' = <<>>
        /\ update_error' = "IndexError"
        /\ UNCHANGED <<labels, point_first_frame, point_last_frame,
                       frame_step, scatter, skeleton_lines, bat_lines>>
        /\ UNCHANGED <<globalVars, classifierVars, selfVars, heap,
                       reportVars>>
        /\ UNCHANGED <<tableVars, scriptVars, mainVars>>

----
(* Initial states and specifications.                                      *)

InitGlobals ==
    /\ COLORS = COLORS_INIT
    /\ REFERENCE_RANGES = REFERENCE_RANGES_INIT

\* MocapReportGenerator.__init__(player_name, date, velocity_range, output_path)
InitGenerator ==
    /\ player_name \in PlayerNames
    /\ date \in Dates
    /\ velocity_range \in VelocityRanges
    /\ output_path \in Paths
    /\ ctor_output_path = output_path
    /\ metrics = "own"
    /\ heap = HEAP_INIT
    /\ pc = "idle"
    /\ page_idx = 1
    /\ doc_path = NoneRef
    /\ elements = <<>>
    /\ files = [f \in Paths |-> NoFile]
    /\ returned = NoneRef
    /\ called = <<>>
    /\ raised_in = NoneRef
    /\ call_metrics = <<>>
    /\ first_return = <<>>

InitClassifier ==
    /\ value \in Values
    /\ ref_range \in Ranges
    /\ std \in Stds
    /\ result = NoResult
    /\ ncalls = 0
    /\ other_result = NoResult

\* the generator as main() constructs it
InitMainGenerator ==
    /\ InitGenerator
    /\ player_name = "Luke Coats"
    /\ output_path = "mocap_report.pdf"

\* no classifier call is examined: its arguments are fixed (a value without
\* a range and without a std)
InitNoClassifierCall ==
    /\ InitClassifier
    /\ value = 0
    /\ ref_range = None
    /\ std = None

\* no table builder call is examined
InitNoTableCall ==
    /\ metrics_list = <<>>
    /\ table = NoTable
    /\ table_builder = NoneRef

\* pitching_report.py is not run
InitNoScript ==
    /\ script_pc = "idle"
    /\ pitching_poi = NoDataFrame
    /\ pitching_poi_filtered = NoDataFrame
    /\ script_stats = <<>>
    /\ stats_df = EmptyDict

\* main is not run
InitNoMain ==
    /\ main_pc = "idle"
    /\ pitching_data = NoDataFrame
    /\ stats = <<>>
    /\ main_runs = 0
    /\ main_returns = <<>>

\* the scatter and the lines as animate_skeleton_hitting creates them
InitArtists ==
    /\ scatter = <<>>
    /\ skeleton_lines = [i \in 1..Len(skeleton_connections) |-> EmptyLine]
    /\ bat_lines = [i \in 1..Len(bat_connections) |-> EmptyLine]
    /\ frame_idx = 0 - 1
    /\ update_result = <<>>
    /\ update_error = NoneRef

\* no file is animated
InitNoAnimation ==
    /\ labels = <<>>
    /\ point_first_frame = 0
    /\ point_last_frame = 0
    /\ frame_step = 1
    /\ InitArtists

InitExtra ==
    InitNoTableCall /\ InitNoScript /\ InitNoMain /\ InitNoAnimation

\* the report generator and its callers
Init == InitGlobals /\ InitGenerator /\ InitNoClassifierCall /\ InitExtra

Next ==
    \/ \E m \in {"m1", "m2", NoneRef} : set_metrics(m)
    \/ SummaryPageCall
    \/ GenerateReportBegin
    \/ GenerateReportPage
    \/ GenerateReportPageRaise
    \/ GenerateReportBuild
    \/ GenerateReportBuildRaise

Spec == Init /\ [][Next]_vars

\* the classifier applied to inputs drawn from the bounded sets
InitClassify ==
    InitGlobals /\ InitMainGenerator /\ InitClassifier /\ InitExtra

NextClassify ==
    \/ GetRangeColorCall
    \/ GetRangeColorOtherCall

SpecClassify == InitClassify /\ [][NextClassify]_vars

\* the table builders applied to a drawn metrics_list and, after
\* set_metrics(m), to a drawn dictionary m
InitTables ==
    /\ InitGlobals /\ InitNoClassifierCall
    /\ player_name = "Luke Coats"
    /\ date \in Dates
    /\ velocity_range \in VelocityRanges
    /\ output_path = "mocap_report.pdf"
    /\ ctor_output_path = output_path
    /\ metrics = "m1"
    /\ \E d \in MetricsDicts : heap = [HEAP_INIT EXCEPT !["m1"] = d]
    /\ pc = "idle"
    /\ page_idx = 1
    /\ doc_path = NoneRef
    /\ elements = <<>>
    /\ files = [f \in Paths |-> NoFile]
    /\ returned = NoneRef
    /\ called = <<>>
    /\ raised_in = NoneRef
    /\ call_metrics = <<>>
    /\ first_return = <<>>
    /\ metrics_list \in MetricsLists
    /\ table = NoTable
    /\ table_builder = NoneRef
    /\ InitNoScript /\ InitNoMain /\ InitNoAnimation

NextTables ==
    \/ CreateMetricsTableCall
    \/ CreateAngularVelocityTableCall
    \/ CreateStressTableCall

SpecTables == InitTables /\ [][NextTables]_vars

\* pitching_report.py, run from its first statement
InitPitching ==
    /\ InitGlobals /\ InitMainGenerator /\ InitNoClassifierCall
    /\ InitNoTableCall /\ InitNoMain /\ InitNoAnimation
    /\ script_pc = "read_csv"
    /\ pitching_poi = NoDataFrame
    /\ pitching_poi_filtered = NoDataFrame
    /\ script_stats = <<>>
    /\ stats_df = EmptyDict

NextPitching ==
    \/ ReadCsv
    \/ ReadCsvRaise
    \/ FilterRows
    \/ ComputeStats
    \/ BuildStatsDf
    \/ BuildStatsDfRaise

SpecPitching == InitPitching /\ [][NextPitching]_vars

\* runs of main of cltest_report.py
InitMain ==
    /\ InitGlobals /\ InitMainGenerator /\ InitNoClassifierCall
    /\ InitExtra

NextMain ==
    \/ MainStart
    \/ MainLoad
    \/ MainConstruct
    \/ MainSetMetrics
    \/ MainGenerateReport
    \/ GenerateReportPage
    \/ GenerateReportPageRaise
    \/ GenerateReportBuild
    \/ GenerateReportBuildRaise
    \/ MainReturn
    \/ MainRaise

SpecMain == InitMain /\ [][NextMain]_vars

\* the animation of a file with a drawn label list and drawn frame numbers
InitAnimate ==
    /\ InitGlobals /\ InitMainGenerator /\ InitNoClassifierCall
    /\ InitNoTableCall /\ InitNoScript /\ InitNoMain
    /\ labels \in LabelLists
    /\ point_first_frame \in 0..MaxFirstFrame
    /\ point_last_frame \in
           point_first_frame..(point_first_frame + MaxSpan)
    /\ frame_step \in 1..MaxStep
    /\ InitArtists

NextAnimate ==
    \/ \E idx \in 0..MaxSpan : Update(idx)
    \/ \E idx \in 0..MaxSpan : UpdateRaise(idx)

SpecAnimate == InitAnimate /\ [][NextAnimate]_vars

----
(* Properties of get_range_color, checked under SpecClassify.              *)

Called == ncalls > 0
HasRange == ref_range # None
Low == ref_range[1]
High == ref_range[2]
WellFormed == HasRange /\ Low <= High
InRange == HasRange /\ Low <= value /\ value <= High
HasStd == std # None

\* C1: get_range_color(value, (low, high), std) returns green for every
\* value with low <= value <= high, both bounds included, whatever std is
\* (a number of any sign, or None).
C1_InRangeIsGreen ==
    (Called /\ InRange) => result = COLORS["green"]

C1_Witness ==
    /\ Called /\ InRange
    /\ Low < High /\ value = High
    /\ HasStd /\ std[1] < 0
    /\ result = COLORS["green"]

\* C2: for a well-formed range, a numeric std and a value below low, the
\* result is yellow exactly when 0 < low - value <= std and red exactly
\* when low - value > std; distance = std is yellow.
C2_BelowRangeBand ==
    (Called /\ WellFormed /\ HasStd /\ value < Low) =>
        /\ result = COLORS["yellow"] <=>
               (0 < Low - value /\ Low - value <= std[1])
        /\ result = COLORS["red"] <=> (Low - value > std[1])

C2_Witness ==
    /\ Called /\ WellFormed /\ HasStd /\ value < Low
    /\ Low - value = std[1]
    /\ result = COLORS["yellow"]

\* C3: the classifier is symmetric about a well-formed range: for every std
\* and every d > 0 the value high + d gets the colour of the value low - d.
C3_Symmetric ==
    (Called /\ WellFormed /\ value < Low) =>
        result = get_range_color(High + (Low - value), ref_range, std)

C3_Witness ==
    /\ Called /\ WellFormed /\ value < Low /\ Low < High
    /\ HasStd /\ Low - value = std[1]
    /\ result = COLORS["yellow"]
    /\ get_range_color(High + std[1], ref_range, std) = COLORS["yellow"]

\* C4: without a std (None) every value outside the range is red, however
\* close it is to the range; yellow is never returned without a std.
C4_NoStdIsRed ==
    (Called /\ ~HasStd) =>
        /\ (HasRange /\ ~InRange) => result = COLORS["red"]
        /\ result # COLORS["yellow"]

C4_Witness ==
    /\ Called /\ ~HasStd /\ WellFormed
    /\ value = Low - 1
    /\ result = COLORS["red"]

\* C5: without a reference range (None) the result is gray for every value
\* and every std, never green, yellow or red.
C5_NoRangeIsGray ==
    (Called /\ ~HasRange) =>
        /\ result = COLORS["gray"]
        /\ result \notin {COLORS["green"], COLORS["yellow"], COLORS["red"]}

C5_Witness ==
    /\ Called /\ ~HasRange
    /\ HasStd /\ std[1] > 0 /\ value > 0
    /\ result = COLORS["gray"]

\* C6: for every std <= 0 and every well-formed range, every value outside
\* the range is red: a zero or negative std gives no near-range band.
C6_NonPositiveStdIsRed ==
    (Called /\ WellFormed /\ HasStd /\ std[1] <= 0 /\ ~InRange) =>
        result = COLORS["red"]

C6_Witness ==
    /\ Called /\ WellFormed /\ HasStd /\ std[1] < 0
    /\ value = High + 1
    /\ result = COLORS["red"]

----
(* Properties of generate_report, checked under Spec.                      *)

\* the positions of the page breaks of a document
BreaksOf(doc) == {i \in 1..Len(doc) : doc[i] = PageBreak}

\* the number of the page on which the flowable at position i is laid out
PageNumberOf(doc, i) == 1 + Cardinality({b \in BreaksOf(doc) : b < i})

IsTitle(flowable) == flowable.name \in {"header", "summary_title"}

\* the section titles a document shows, in order
TitlesOf(doc) ==
    LET titles == SelectSeq(doc, IsTitle)
    IN  [k \in 1..Len(titles) |-> titles[k].text]

ExpectedTitles ==
    << "SUMMARY", "Shoulder", "Elbow / Arm Slot", "Throwing Arm Stress",
       "Trunk", "Pelvis", "Hip-Shoulder Separation", "Kinematic Sequence",
       "Report Information" >>

ExpectedCalls ==
    << "generate_summary_page", "generate_shoulder_page",
       "generate_elbow_arm_slot_page", "generate_stress_page",
       "generate_trunk_page", "generate_pelvis_page",
       "generate_hip_shoulder_separation_page",
       "generate_kinematic_sequence_page", "generate_report_info_page" >>

\* a document made of the nine pages, each once, in the fixed order: nine
\* pages, page k made by the k-th generator only, one title per page
NinePagesInOrder(doc) ==
    /\ Cardinality(BreaksOf(doc)) = 8
    /\ TitlesOf(doc) = [k \in 1..9 |-> <<ExpectedTitles[k]>>]
    /\ \A i \in 1..Len(doc) :
           /\ doc[i] # PageBreak =>
                  doc[i].page = ExpectedCalls[PageNumberOf(doc, i)]
           /\ IsTitle(doc[i]) =>
                  doc[i].text = <<ExpectedTitles[PageNumberOf(doc, i)]>>
    /\ \A k \in 1..9 :
           \E i \in 1..Len(doc) : IsTitle(doc[i]) /\ PageNumberOf(doc, i) = k

\* C8: generate_report emits each of the nine pages exactly once, in the
\* order Summary, Shoulder, Elbow/Arm Slot, Throwing Arm Stress, Trunk,
\* Pelvis, Hip-Shoulder Separation, Kinematic Sequence, Report Information,
\* whatever the metrics and the constructor arguments are.
C8_NinePagesFixedOrder ==
    (pc = "returned") =>
        /\ called = ExpectedCalls \o <<"doc.build">>
        /\ NinePagesInOrder(files[doc_path])

C8_Witness ==
    /\ pc = "returned"
    /\ metrics = "m2"
    /\ player_name = "Other Player"
    /\ Len(files[doc_path]) > 9

\* C9: generate_report builds the document at exactly the output_path the
\* constructor received and returns that path; set_metrics and the page
\* generators leave output_path alone.
C9_BuildsAndReturnsCtorPath ==
    /\ output_path = ctor_output_path
    /\ (pc \in {"page", "build"}) => doc_path = ctor_output_path
    /\ (pc = "returned") =>
           /\ returned = ctor_output_path
           /\ doc_path = ctor_output_path
           /\ files[ctor_output_path] = elements
    /\ \A f \in Paths \ {ctor_output_path} : files[f] = NoFile

C9_Witness ==
    /\ pc = "returned"
    /\ metrics = "m1"
    /\ ctor_output_path = "reports/other.pdf"
    /\ returned = "reports/other.pdf"
    /\ files["reports/other.pdf"] # NoFile

\* C10: a failure in a page generator or in the build propagates out of
\* generate_report: the failing call is the last one it makes, the build is
\* not started after a failed page, no call is repeated, no path is returned
\* and no document with fewer than the nine pages is written.
C10_FailurePropagates ==
    (raised_in # NoneRef) =>
        /\ pc = "raised"
        /\ returned = NoneRef
        /\ called # <<>>
        /\ called[Len(called)] = raised_in
        /\ \A i \in 1..(Len(called) - 1) : called[i] # "doc.build"
        /\ \A i, j \in 1..Len(called) : called[i] = called[j] => i = j
        /\ \A f \in Paths : files[f] = NoFile \/ NinePagesInOrder(files[f])

C10_Witness ==
    /\ pc = "raised"
    /\ raised_in = "generate_trunk_page"
    /\ Len(called) = 5
    /\ returned = NoneRef

----
(* Tables and plots of the report under construction.                      *)

NoBackground == "no background"

NumCols(t) == Len(t.data[1])
NumRows(t) == Len(t.data)

\* a 0-based cell coordinate; a negative one counts from the end
Coord(i, n) == IF i < 0 THEN n + i ELSE i

\* the BACKGROUND command s covers the cell in column c, row r of table t
Covers(s, t, c, r) ==
    /\ Coord(s.c1, NumCols(t)) <= c /\ c <= Coord(s.c2, NumCols(t))
    /\ Coord(s.r1, NumRows(t)) <= r /\ r <= Coord(s.r2, NumRows(t))

CoveringCommands(t, c, r) == SelectSeq(t.styles, LAMBDA s : Covers(s, t, c, r))

\* the background of a cell: that of the last command covering it
BackgroundOf(t, c, r) ==
    LET cov == CoveringCommands(t, c, r)
    IN  IF cov = <<>> THEN NoBackground ELSE cov[Len(cov)].colour

CellAt(t, c, r) == t.data[r + 1][c + 1]

\* the columns of t whose header cell reads h
ColumnsTitled(t, h) == {c \in 0..(NumCols(t) - 1) : CellAt(t, c, 0).fmt = h}

MeanCol(t) == CHOOSE c \in ColumnsTitled(t, "Mean +/- Std Dev") : TRUE
RefCol(t) == CHOOSE c \in ColumnsTitled(t, "Reference") : TRUE

\* row r of t shows a mean, a std and a reference interval
ShowsReference(t, r) ==
    /\ ColumnsTitled(t, "Mean +/- Std Dev") # {}
    /\ ColumnsTitled(t, "Reference") # {}
    /\ Len(CellAt(t, MeanCol(t), r).args) = 2
    /\ Len(CellAt(t, RefCol(t), r).args) = 2

\* the interval between the two numbers a reference cell shows
DisplayedInterval(t, r) ==
    LET a == CellAt(t, RefCol(t), r).args[1]
        b == CellAt(t, RefCol(t), r).args[2]
    IN  IF a <= b THEN <<a, b>> ELSE <<b, a>>

\* the classifier's colour for the numbers row r shows
ClassifierColour(t, r) ==
    get_range_color(CellAt(t, MeanCol(t), r).args[1],
                    DisplayedInterval(t, r),
                    <<CellAt(t, MeanCol(t), r).args[2]>>)

DetailPages ==
    {"generate_shoulder_page", "generate_elbow_arm_slot_page",
     "generate_stress_page", "generate_trunk_page", "generate_pelvis_page",
     "generate_hip_shoulder_separation_page",
     "generate_kinematic_sequence_page"}

\* the tables the flowables of page generator p hold in doc
TablesOn(doc, p) ==
    {doc[i].tables[j] : <<i, j>> \in
        {x \in (1..Len(doc)) \X (1..3) :
            doc[x[1]].page = p /\ x[2] <= Len(doc[x[1]].tables)}}

PlotsOn(doc, p) ==
    {doc[i].plots[j] : <<i, j>> \in
        {x \in (1..Len(doc)) \X (1..3) :
            doc[x[1]].page = p /\ x[2] <= Len(doc[x[1]].plots)}}

TableNamed(doc, p, name) == CHOOSE t \in TablesOn(doc, p) : t.name = name

\* C11: on every detail page (shoulder, elbow, stress, trunk, pelvis,
\* hip-shoulder separation, kinematic sequence) the background of the
\* mean +/- std cell of each table row that shows a reference interval is the
\* colour the classifier gives for the row's displayed mean, std and
\* interval.
C11_DetailColoursFollowClassifier ==
    \A p \in DetailPages : \A t \in TablesOn(elements, p) :
        \A r \in 1..(NumRows(t) - 1) :
            ShowsReference(t, r) =>
                BackgroundOf(t, MeanCol(t), r) = ClassifierColour(t, r)

\* C12 as claimed: in the summary metrics table every phase cell whose
\* reference is None has the gray background, and so has the knee cell of
\* the angular-velocity table.
C12_NoReferenceIsGray ==
    LET p == "generate_summary_page" IN
    (TablesOn(elements, p) # {}) =>
        /\ LET t == TableNamed(elements, p, "metrics_table") IN
           \A i \in 1..Len(shoulder_metrics) : \A ph \in 1..3 :
               shoulder_metrics[i][7 + ph] = None =>
                   BackgroundOf(t, ph, i) = COLORS["gray"]
        /\ BackgroundOf(TableNamed(elements, p, "angular_table"), 1, 1)
               = COLORS["gray"]

\* C12, amended: in the summary metrics table a phase cell whose reference
\* is None (hip-shoulder separation at MER and REL) gets no background at
\* all, a phase cell with a reference gets the classifier's colour, and the
\* knee cell of the angular-velocity table gets no background either; no
\* cell of the two tables is gray.
C12_NoReferenceIsUnpainted ==
    LET p == "generate_summary_page" IN
    (TablesOn(elements, p) # {}) =>
        /\ LET t == TableNamed(elements, p, "metrics_table") IN
           \A i \in 1..Len(shoulder_metrics) : \A ph \in 1..3 :
               LET m == shoulder_metrics[i] IN
               /\ m[7 + ph] = None => BackgroundOf(t, ph, i) = NoBackground
               /\ m[7 + ph] # None =>
                      BackgroundOf(t, ph, i) =
                          get_range_color(m[2 * ph], m[7 + ph],
                                          <<m[2 * ph + 1]>>)
               /\ BackgroundOf(t, ph, i) # COLORS["gray"]
        /\ LET a == TableNamed(elements, p, "angular_table") IN
           /\ CellAt(a, 0, 1).fmt = "Knee"
           /\ BackgroundOf(a, 1, 1) = NoBackground
           /\ \A r \in 1..(NumRows(a) - 1) :
                  BackgroundOf(a, 1, r) # COLORS["gray"]

C12_Witness ==
    /\ pc = "returned"
    /\ LET t == TableNamed(files[doc_path], "generate_summary_page",
                           "metrics_table")
       IN  /\ CellAt(t, 0, 7).fmt = "Hip-Shoulder Separation"
           /\ BackgroundOf(t, 1, 7) = COLORS["green"]
           /\ BackgroundOf(t, 2, 7) = NoBackground
           /\ BackgroundOf(t, 3, 7) = NoBackground

\* the plots of doc that show series over the normalized time axis
TimePlots(doc) ==
    UNION {{pl \in PlotsOn(doc, p) :
               pl.kind \in {"time_series", "kinematic_sequence"}} :
           p \in DetailPages}

MarkerTimes(pl) == {pl.vlines[i].x : i \in 1..Len(pl.vlines)}

\* C13 as claimed: every time-series visual of the report has a shaded
\* reference band and the event markers at 0.5, 0.7 and 0.85 inside the
\* plotted interval [0, 1].
C13_EveryPlotHasBandAndMarkers ==
    \A pl \in TimePlots(elements) :
        /\ pl.band # None
        /\ MarkerTimes(pl) = {50, 70, 85}
        /\ pl.xlim = <<0, 100>>

\* C13, amended: every plot made by create_time_series_plot has the event
\* markers at Foot Plant 0.5, Max External Rotation 0.7 and Release 0.85, in
\* this order inside the plotted interval [0, 1], and no page generator
\* overrides these times; it has a shaded reference band on every page but
\* the stress page, whose three plots have none.  The kinematic sequence
\* plot has no band and only the Foot Plant and Release markers.
C13_MarkersFixedBandButStress ==
    \A p \in DetailPages : \A pl \in PlotsOn(elements, p) :
        /\ pl.kind = "time_series" =>
               /\ pl.vlines = << VLine(fp_time_default, "blue"),
                                 VLine(rel_time_default, "red"),
                                 VLine(mer_time_default, "black") >>
               /\ pl.xlim[1] <= fp_time_default
               /\ fp_time_default < mer_time_default
               /\ mer_time_default < rel_time_default
               /\ rel_time_default <= pl.xlim[2]
               /\ (pl.band = None) <=> (p = "generate_stress_page")
        /\ pl.kind = "kinematic_sequence" =>
               /\ pl.band = None
               /\ pl.vlines = << VLine(fp_time_default, "blue"),
                                 VLine(rel_time_default, "red") >>

C13_Witness ==
    /\ pc = "returned"
    /\ Cardinality(PlotsOn(files[doc_path], "generate_stress_page")) = 3
    /\ \A pl \in PlotsOn(files[doc_path], "generate_stress_page") :
           pl.band = None /\ Len(pl.vlines) = 3
    /\ \E pl \in PlotsOn(files[doc_path], "generate_trunk_page") :
           pl.band = <<9, 40>>
    /\ PlotsOn(files[doc_path], "generate_kinematic_sequence_page")
           = {kin_plot}

\* C14: there is no update in place: whatever set_metrics and page
\* generation calls are made, the dictionaries of the caller keep exactly
\* the keys and values the caller gave them.
C14_NoUpdateInPlace ==
    \A m \in {"m1", "m2"} : heap[m] = HEAP_INIT[m]

\* the positions of doc that a page generator's flowables occupy
PageSegment(doc, p) == {i \in 1..Len(doc) : doc[i].page = p}

\* C18: the element sequence generate_report hands to the document build
\* holds exactly eight page breaks, one between each two consecutive pages,
\* none before the first page or after the last; every page break is
\* appended by generate_report itself, none by a page generator.
EightBreaksBetweenPages(doc) ==
    /\ Cardinality(BreaksOf(doc)) = 8
    /\ doc[1] # PageBreak
    /\ doc[Len(doc)] # PageBreak
    /\ \A i \in 1..Len(doc) :
           (doc[i].kind = "PageBreak") <=> (doc[i].page = "generate_report")
    /\ \A k \in 1..Len(REPORT_PAGES) :
           /\ PageSegment(doc, REPORT_PAGES[k]) # {}
           /\ \A i \in PageSegment(doc, REPORT_PAGES[k]) :
                  PageNumberOf(doc, i) = k
    /\ \A b \in BreaksOf(doc) :
           /\ doc[b - 1].page = REPORT_PAGES[PageNumberOf(doc, b)]
           /\ doc[b + 1].page = REPORT_PAGES[PageNumberOf(doc, b) + 1]

C18_EightPageBreaks ==
    /\ (pc = "build") => EightBreaksBetweenPages(elements)
    /\ (pc = "returned") => EightBreaksBetweenPages(files[doc_path])
    /\ \A p \in DetailPages \cup
                {"generate_summary_page", "generate_report_info_page"} :
           (p # "generate_summary_page" \/ metrics # NoneRef) =>
               \A i \in 1..Len(PageElements(p)) :
                   PageElements(p)[i].kind # "PageBreak"

C18_Witness ==
    /\ pc = "build"
    /\ Cardinality(BreaksOf(elements)) = 8
    /\ elements[Len(elements)].page = "generate_report_info_page"

----
(* The table builders on drawn arguments.                                  *)

ClassificationColours ==
    {COLORS["green"], COLORS["yellow"], COLORS["red"], COLORS["gray"]}

MetricsHeader ==
    << Fmt("Key Metrics", <<>>), Fmt("Foot Plant", <<>>),
       Fmt("Max External Rotation", <<>>), Fmt("Release", <<>>) >>

\* the commands of t's style that paint a classification colour
ClassificationCommands(t) ==
    SelectSeq(t.styles, LAMBDA s : s.colour \in ClassificationColours)

\* C16: for a metrics_list of n rows _create_metrics_table builds a table of
\* n + 1 rows in input order; every classification background it sets is on
\* one data cell, in table row i + 1 for row i (0-based) of the list and in
\* column 1, 2 or 3 for Foot Plant, Max External Rotation or Release, and
\* equals get_range_color(value, reference, std) of that row and phase; the
\* header row and the label column get no classification colour and no cell
\* gets more than one.
C16_MetricsTableLayout ==
    (table_builder = "_create_metrics_table") =>
        LET n == Len(metrics_list)
            cmds == ClassificationCommands(table)
        IN  /\ NumRows(table) = n + 1
            /\ table.data[1] = MetricsHeader
            /\ \A i \in 0..(n - 1) :
                   LET m == metrics_list[i + 1] IN
                   /\ CellAt(table, 0, i + 1) = Fmt(m[1], <<>>)
                   /\ \A ph \in 1..3 :
                          CellAt(table, ph, i + 1).args
                              = <<m[2 * ph], m[2 * ph + 1]>>
            /\ \A k \in 1..Len(cmds) :
                   LET s == cmds[k] IN
                   /\ s.c1 = s.c2 /\ s.c1 \in 1..3
                   /\ s.r1 = s.r2 /\ s.r1 \in 1..n
                   /\ LET m == metrics_list[s.r1] IN
                      s.colour = get_range_color(m[2 * s.c1], m[7 + s.c1],
                                                 <<m[2 * s.c1 + 1]>>)
            /\ \A r \in 0..n : \A c \in 0..3 :
                   /\ (r = 0 \/ c = 0) =>
                          BackgroundOf(table, c, r) \notin ClassificationColours
                   /\ Len(SelectSeq(cmds, LAMBDA s : Covers(s, table, c, r)))
                          <= 1

C16_Witness ==
    /\ table_builder = "_create_metrics_table"
    /\ Len(metrics_list) = 2
    /\ metrics_list[1][1] = "Elbow Flexion"
    /\ metrics_list[2][1] = "Knee Flexion"
    /\ BackgroundOf(table, 1, 1) = COLORS["yellow"]
    /\ BackgroundOf(table, 2, 1) = COLORS["yellow"]
    /\ BackgroundOf(table, 3, 1) = NoBackground
    /\ BackgroundOf(table, 1, 2) = COLORS["green"]
    /\ BackgroundOf(table, 2, 2) = COLORS["red"]
    /\ BackgroundOf(table, 0, 0) = COLORS["navy"]

\* the reference range named by the claim for each row of the two tables
RangeOfRow(builder, r) ==
    IF builder = "_create_angular_velocity_table"
    THEN CASE r = 1 -> None
           [] r = 2 -> REFERENCE_RANGES["pelvis_angular_velocity"]
           [] r = 3 -> REFERENCE_RANGES["trunk_angular_velocity"]
           [] r = 4 -> REFERENCE_RANGES["elbow_angular_velocity"]
           [] r = 5 -> REFERENCE_RANGES["shoulder_angular_velocity"]
    ELSE CASE r = 1 -> REFERENCE_RANGES["shoulder_force_bw"]
           [] r = 2 ->
                REFERENCE_RANGES["shoulder_internal_rotation_torque_bwh"]
           [] r = 3 -> REFERENCE_RANGES["elbow_torque_bwh"]

\* C17: in the angular-velocity and stress summary tables every coloured
\* cell is green when the value it shows lies inside its reference range and
\* red otherwise, never yellow; the ranges are the '<joint>_angular_velocity'
\* entries for pelvis, trunk, elbow and shoulder, shoulder_force_bw,
\* shoulder_internal_rotation_torque_bwh and elbow_torque_bwh.
C17_SmallTablesGreenOrRed ==
    (table_builder \in {"_create_angular_velocity_table",
                        "_create_stress_table"}) =>
        \A r \in 1..(NumRows(table) - 1) :
            LET shown == CellAt(table, 1, r).args
                rng == RangeOfRow(table_builder, r)
                inside == /\ shown # <<>>
                          /\ rng[1] <= shown[1] /\ shown[1] <= rng[2]
            IN  /\ BackgroundOf(table, 0, r) = NoBackground
                /\ IF rng = None
                   THEN BackgroundOf(table, 1, r) = NoBackground
                   ELSE BackgroundOf(table, 1, r) =
                            (IF inside THEN COLORS["green"]
                             ELSE COLORS["red"])

C17_Witness ==
    /\ table_builder = "_create_angular_velocity_table"
    /\ CellAt(table, 1, 2).args = <<580>>
    /\ BackgroundOf(table, 1, 2) = COLORS["red"]
    /\ CellAt(table, 1, 4).args = <<2030>>
    /\ BackgroundOf(table, 1, 4) = COLORS["green"]

----
(* main and the pitching script.                                           *)

\* C15: the statistics computed from the loaded dataset never reach the PDF
\* generator: any two completed runs of main, whatever datasets
\* load_and_process_data returned to them, build reports with identical
\* pages, cell texts and cell colours.
C15_ReportIndependentOfData ==
    \A i, j \in 1..Len(main_returns) :
        /\ main_returns[i].report = main_returns[j].report
        /\ main_returns[i].output_path = main_returns[j].output_path
        /\ NinePagesInOrder(main_returns[i].report)

C15_Witness ==
    /\ Len(main_returns) = 2
    /\ main_returns[1].pitching_data # main_returns[2].pitching_data
    /\ main_returns[1].stats # main_returns[2].stats
    /\ main_returns[1].stats # <<>>
    /\ main_returns[1].stats[1].column = "pitch_speed_mph"
    /\ main_returns[1].report # <<>>

\* the positions of the rows of df within the loaded table
Kept(df) == {df.rows[i].index + 1 : i \in 1..Len(df.rows)}

StatColumns(entries) == [k \in 1..Len(entries) |-> entries[k].column]

BothPresent(connection) ==
    /\ \E i \in 1..Len(labels) : labels[i] = connection[1]
    /\ \E i \in 1..Len(labels) : labels[i] = connection[2]

C20_LinesSetIffBothEndpoints ==
    (frame_idx >= 0) =>
        /\ update_error = NoneRef
        /\ \A i \in 1..Len(skeleton_connections) :
               (skeleton_lines[i] # EmptyLine)
                   <=> BothPresent(skeleton_connections[i])
        /\ \A i \in 1..Len(bat_connections) :
               (bat_lines[i] # EmptyLine) <=> BothPresent(bat_connections[i])
        /\ Len(update_result) = 1 + 13 + 3
        /\ update_result[1].artist = "scatter"
        /\ \A i \in 1..13 :
               update_result[1 + i] = [artist |-> "skeleton_lines", i |-> i - 1]
        /\ \A i \in 1..3 :
               update_result[14 + i] = [artist |-> "bat_lines", i |-> i - 1]

----
(* The reference intervals.                                                *)

\* the metrics of REFERENCE_RANGES that hold one interval per phase
PhasedMetrics ==
    {"shoulder_horizontal_abduction", "shoulder_abduction",
     "shoulder_external_rotation", "elbow_flexion", "trunk_forward_tilt",
     "trunk_lateral_tilt", "trunk_rotation", "pelvic_forward_tilt",
     "pelvic_lateral_tilt", "pelvic_rotation", "hip_shoulder_separation",
     "knee_flexion"}

\* every interval of REFERENCE_RANGES
ReferenceIntervals ==
    UNION {{REFERENCE_RANGES[m][ph] : ph \in DOMAIN REFERENCE_RANGES[m]} :
              m \in PhasedMetrics}
    \cup {REFERENCE_RANGES[m] : m \in (DOMAIN REFERENCE_RANGES) \ PhasedMetrics}

\* the intervals the summary page hands to get_range_color: the references
\* of shoulder_metrics that are not None, in the units of REFERENCE_RANGES,
\* and the references of the two small tables
PassedIntervals ==
    UNION {{REFERENCE_RANGES[m][ph] : ph \in DOMAIN REFERENCE_RANGES[m]} :
              m \in PhasedMetrics \ {"trunk_lateral_tilt",
                                     "pelvic_lateral_tilt"}}
    \cup {RangeOfRow("_create_angular_velocity_table", r) : r \in 2..5}
    \cup {RangeOfRow("_create_stress_table", r) : r \in 1..3}

\* C21: every reference interval in REFERENCE_RANGES, and so every interval
\* the report passes to get_range_color, is well-formed: its low bound is
\* less than or equal to its high bound.
C21_ReferenceRangesWellFormed ==
    /\ \A r \in ReferenceIntervals : r[1] <= r[2]
    /\ \A r \in PassedIntervals : r[1] <= r[2]
    /\ \A i \in 1..Len(shoulder_metrics) : \A ph \in 1..3 :
           LET r == shoulder_metrics[i][7 + ph]
           IN  r # None => (r \in {FxRange(x) : x \in PassedIntervals}
                            /\ r[1] <= r[2])

----
(* Reversed ranges and monotonicity of get_range_color, checked under      *)
(* SpecClassify.                                                           *)

\* C22: get_range_color does not reject a malformed range: for every range
\* with low > high, every value and every std the call returns, and what it
\* returns is yellow or red, never green: no value is classified as in
\* range.
C22_MalformedRangeNeverGreen ==
    (Called /\ HasRange /\ Low > High) =>
        /\ result \in {COLORS["yellow"], COLORS["red"]}
        /\ result \notin {COLORS["green"], COLORS["gray"], NoResult}
        /\ ~HasStd => result = COLORS["red"]

C22_Witness ==
    /\ Called /\ HasRange /\ Low > High
    /\ High < value /\ value < Low
    /\ HasStd
    /\ result = COLORS["yellow"]

\* the severity of a classification colour
Severity(colour) ==
    CASE colour = COLORS["green"] -> 0
      [] colour = COLORS["yellow"] -> 1
      [] colour = COLORS["red"] -> 2

\* C23: the classifier is monotone: for a fixed well-formed range and a
\* fixed std the severity (green < yellow < red) never decreases as the
\* value moves further away from the range on either side, and for a fixed
\* value and range the severity never increases as std grows.
C23_Monotone ==
    (Called /\ WellFormed) =>
        /\ \A v \in Values :
               ((v <= value /\ value <= High) \/ (v >= value /\ value >= Low))
                   => Severity(get_range_color(v, ref_range, std))
                          >= Severity(result)
        /\ HasStd =>
               \A s \in Stds \ {None} :
                   s[1] >= std[1] =>
                       Severity(get_range_color(value, ref_range, s))
                           <= Severity(result)

C23_Witness ==
    /\ Called /\ WellFormed /\ HasStd
    /\ value > High
    /\ result = COLORS["yellow"]
    /\ get_range_color(value + 1, ref_range, std) = COLORS["red"]
    /\ get_range_color(value, ref_range, <<std[1] - 1>>) = COLORS["red"]
    /\ get_range_color(value - 1, ref_range, std) = COLORS["green"]

----
(* Two generate_report calls on one generator.                             *)

----
(* The summary page against the detail pages.                              *)

PhaseNames == <<"FP", "MER", "REL">>

\* the rows of the summary metrics table that a detail table repeats
PhasedDetail ==
    << [row |-> 1, metric |-> "shoulder_horizontal_abduction",
        page |-> "generate_shoulder_page", table |-> "sha_table"],
       [row |-> 2, metric |-> "shoulder_abduction",
        page |-> "generate_shoulder_page", table |-> "sab_table"],
       [row |-> 3, metric |-> "shoulder_external_rotation",
        page |-> "generate_shoulder_page", table |-> "ser_table"],
       [row |-> 4, metric |-> "elbow_flexion",
        page |-> "generate_elbow_arm_slot_page", table |-> "elbow_table"],
       [row |-> 5, metric |-> "trunk_forward_tilt",
        page |-> "generate_trunk_page", table |-> "tft_table"],
       [row |-> 6, metric |-> "trunk_rotation",
        page |-> "generate_trunk_page", table |-> "tr_table"],
       [row |-> 7, metric |-> "hip_shoulder_separation",
        page |-> "generate_hip_shoulder_separation_page",
        table |-> "hss_table"],
       [row |-> 8, metric |-> "pelvic_forward_tilt",
        page |-> "generate_pelvis_page", table |-> "pft_table"],
       [row |-> 9, metric |-> "pelvic_rotation",
        page |-> "generate_pelvis_page", table |-> "pr_table"] >>

\* the rows of the summary stress table and the %BW and %BWH rows of the
\* stress page that repeat them
StressDetail ==
    << [row |-> 1, metric |-> "shoulder_force_bw", table |-> "force_table",
        detail_row |-> 2],
       [row |-> 2, metric |-> "shoulder_internal_rotation_torque_bwh",
        table |-> "shoulder_t_table", detail_row |-> 4],
       [row |-> 3, metric |-> "elbow_torque_bwh",
        table |-> "elbow_t_table", detail_row |-> 2] >>

\* C25: the pages of the report agree with each other: for every (metric,
\* phase) that appears both in the summary tables and on a detail page, the
\* detail page shows the same mean and std as the summary and the same cell
\* colour, and its reference text shows the bounds of the REFERENCE_RANGES
\* entry for that metric and phase as low then high.
C25_PagesAgree ==
    (pc = "build") =>
        LET p == "generate_summary_page"
            s == TableNamed(elements, p, "metrics_table")
            st == TableNamed(elements, p, "stress_table")
        IN  /\ \A k \in 1..Len(PhasedDetail) : \A ph \in 1..3 :
                   LET e == PhasedDetail[k]
                       d == TableNamed(elements, e.page, e.table)
                   IN  /\ CellAt(d, 1, ph).args = CellAt(s, ph, e.row).args
                       /\ BackgroundOf(d, 1, ph) = BackgroundOf(s, ph, e.row)
                       /\ PhaseNames[ph] \in DOMAIN REFERENCE_RANGES[e.metric]
                              => CellAt(d, 2, ph).args =
                                     FxRange(REFERENCE_RANGES[e.metric]
                                                 [PhaseNames[ph]])
            /\ \A k \in 1..Len(StressDetail) :
                   LET e == StressDetail[k]
                       d == TableNamed(elements, "generate_stress_page",
                                       e.table)
                   IN  /\ CellAt(d, 1, e.detail_row).args[1] =
                              Fx(CellAt(st, 1, e.row).args[1])
                       /\ BackgroundOf(d, 1, e.detail_row) =
                              BackgroundOf(st, 1, e.row)
                       /\ CellAt(d, 2, e.detail_row).args =
                              FxRange(REFERENCE_RANGES[e.metric])

\* C26: for every animation step frame_idx with 0 <= frame_idx <
\* len(frame_points) and every frame_step >= 1, the frame read is
\* first_frame + frame_idx * frame_step, lies in [first_frame, last_frame)
\* and is a valid index on the frame axis of the points array, which holds
\* last_frame - first_frame + 1 frames: no step reads past the end of the
\* array whatever first_frame is.
C26_FrameReadInBounds ==
    (frame_idx >= 0) =>
        LET frame == FramePoint(point_first_frame, frame_step, frame_idx)
        IN  /\ frame_idx < NumFramePoints(point_first_frame, point_last_frame,
                                          frame_step)
            /\ point_first_frame <= frame /\ frame < point_last_frame
            /\ 0 <= frame
            /\ frame < NumFrames(point_first_frame, point_last_frame)
            /\ update_error = NoneRef

----
(* The arm-slot diagram and the arm-slot text, checked under SpecMain.     *)

\* the category whose band [start, end) holds the angle
BandOf(a) ==
    categories[CHOOSE i \in 1..Len(categories) :
                   categories[i].start <= a /\ a < categories[i].end]

\* C28: the arm-slot categories of create_arm_slot_diagram partition the
\* angles 0 to 180 degrees into seven contiguous bands with no gap and no
\* overlap (40, 50, 60, 70, 90 and 110 are the shared boundaries), and the
\* category name and colour printed on the arm-slot page ('Low
\* Three-Quarter', #0088CC) are those of the band that contains the angle
\* drawn on the diagram (62) and the angle in the metrics 'arm_slot' entry.
C28_ArmSlotBands ==
    LET n == Len(categories)
        p == "generate_elbow_arm_slot_page"
    IN  /\ n = 7
        /\ categories[1].start = 0 /\ categories[n].end = 180
        /\ \A i \in 1..n : categories[i].start < categories[i].end
        /\ \A i \in 1..(n - 1) : categories[i].end = categories[i + 1].start
        /\ {categories[i].end : i \in 1..(n - 1)} = {40, 50, 60, 70, 90, 110}
        /\ \A a \in 0..179 :
               Cardinality({i \in 1..n : categories[i].start <= a
                                         /\ a < categories[i].end}) = 1
        /\ (main_pc = "generate_report" /\ TablesOn(elements, p) # {}) =>
               LET t == TableNamed(elements, p, "arm_slot_table")
                   d == CHOOSE pl \in PlotsOn(elements, p) :
                            pl.kind = "arm_slot_diagram"
                   a == d.angle[1]
               IN  /\ a = 62
                   /\ heap[metrics]["arm_slot"][1] = a
                   /\ CellAt(t, 0, 1).args[1] = Fx(a)
                   /\ CellAt(t, 0, 1).color = BandOf(a).color
                   /\ CellAt(t, 0, 2).text = BandOf(a).name
                   /\ CellAt(t, 0, 2).color = BandOf(a).color
                   /\ BandOf(a).name = "Low Three-Quarter"
                   /\ BandOf(a).color = "#0088CC"
                   /\ \A i \in 1..n :
                          /\ d.wedges[i].theta1 = 90 - categories[i].end
                          /\ d.wedges[i].theta2 = 90 - categories[i].start
                          /\ d.wedges[i].facecolor = categories[i].color

C28_Witness ==
    /\ main_pc = "generate_report"
    /\ pc = "returned"
    /\ metrics = "m1"
    /\ heap["m1"]["arm_slot"] = <<62, 2>>
    /\ arm_slot_plot \in PlotsOn(files[returned],
                                 "generate_elbow_arm_slot_page")
    /\ CellAt(TableNamed(files[returned], "generate_elbow_arm_slot_page",
                         "arm_slot_table"), 0, 2).text = "Low Three-Quarter"

====
